---- MODULE Spec2Model ----
(***************************************************************************)
(* Drill chat of the tutor app: the session row of drill_sessions, the     *)
(* plan generator, the conversation step engine (processDrillMessage       *)
(* workflow) with its streaming step and markPhaseComplete tool, the       *)
(* broadcast channel drill:<sessionId>, finishSession and summarization.   *)
(* One session; text is a sequence of tokens.                              *)
(***************************************************************************)
EXTENDS Integers, Sequences, FiniteSets, Bags, TLC

\* ---------------------------------------------------------------- bounds
MaxInv == 2          \* engine invocations per behaviour
SeqInv == 1          \* of them started by the session's entry points, when
                     \* invocations are run one at a time
MaxTokens == 2       \* text-delta chunks the model emits per behaviour
MaxToolCalls == 2    \* tool-call chunks the model emits per behaviour
MaxFinish == 2       \* finishSession calls per behaviour
SysTokens == 1       \* text-delta chunks per behaviour when invocations overlap
SysToolCalls == 2    \* tool-call chunks per behaviour when invocations overlap
MaxOpens == 2        \* streams a client opens per behaviour
MaxReruns == 1       \* changes of reconnectTrigger per behaviour
MaxConns == 2        \* requests to the event stream route per behaviour
MaxWrites == 1       \* records written to one reply
MaxRecords == 3      \* records the route writes to the stream that is read
MaxPhases == 3       \* phases of a plan given to the prompt builder
MaxDrops == 1        \* connections the client loses
DeliveryToolCalls == 1  \* tool calls of the invocation that is delivered

\* ------------------------------------------------------ program constants
StreamMaxAttempts == 3   \* maxAttempts of the streamLLMResponse step
MaxSteps == 2            \* stepCountIs(2)

Tokens == {"a", " "}
UserTexts == {<<"u">>}
PlanChoices == {<<>>, <<"p1", "p2">>}
LoadFailures == {"no-session", "wrong-owner", "no-topic"}
ToolArgs == {"p1", "p2"}

VARIABLES
  status,          \* drill_sessions.status
  drillPlan,       \* drill_sessions.drill_plan
  chatEvents,      \* drill_sessions.session_data.chatEvents
  aiSdkMessages,   \* drill_sessions.session_data.aiSdkMessages
  completionData,  \* drill_sessions.completion_data
  genPc,           \* position of the generateDrillPlan workflow
  genPlan,         \* output of its generatePlan step
  sumPending,      \* summarizeDrillSession workflows started and not yet stored
  nFinish,         \* finishSession calls so far
  wf,              \* the processDrillMessage workflow invocations
  sse,             \* the refs and state of the useDrillSSE hook of one client
  conns,           \* the requests to GET /api/drill/stream/:sessionId
  rx,              \* the read loop of one stream of the hook
  prompt           \* the last call of buildDrillSystemPrompt and its result

vars == <<status, drillPlan, chatEvents, aiSdkMessages, completionData,
          genPc, genPlan, sumPending, nFinish, wf, sse, conns, rx, prompt>>

serverVars == <<status, drillPlan, chatEvents, aiSdkMessages, completionData,
                genPc, genPlan, sumPending, nFinish, wf>>

Inv == 1..MaxInv

\* ------------------------------------------------------------ data shapes
NoPlan ==
  [isSet |-> FALSE, phases |-> <<>>,
   planProgress |-> [p \in {} |-> "incomplete"]]

Range(s) == {s[k] : k \in 1..Len(s)}

\* String.prototype.trim() leaves a non-empty string
NonWs(t) == \E k \in 1..Len(t) : t[k] # " "

ChatMessageEvent(id, role, content) ==
  [eventType |-> "chat-message", id |-> id, role |-> role,
   content |-> content, phaseId |-> "-"]

PhaseCompleteEvent(id, phaseId) ==
  [eventType |-> "phase-complete", id |-> id, role |-> "-",
   content |-> <<>>, phaseId |-> phaseId]

ModelMessage(role, content, calls) ==
  [role |-> role, content |-> content, calls |-> calls]

EmptySessionData == [chatEvents |-> <<>>, aiSdkMessages |-> <<>>]

\* a message published on the channel drill:<sessionId>; upto is a history
\* field: the index, in the attempt's chunk sequence, of the last chunk the
\* message covers
ChannelMsg(type, messageId, phaseId, content, upto) ==
  [type |-> type, messageId |-> messageId, phaseId |-> phaseId,
   content |-> content, upto |-> upto]

\* channel.publish: published is what the running attempt of an invocation
\* has sent to the channel so far, in order
Publish(w, msgs) == [w EXCEPT !.published = @ \o msgs]

TextChunk(t) == [k |-> "text", v |-> t]
ToolChunk(p) == [k |-> "tool", v |-> p]

\* ------------------------------------------------------------- statuses
StatusRank(s) ==
  CASE s = "preparing" -> 0
    [] s = "ready" -> 1
    [] s = "chat-completed" -> 2
    [] s = "completed" -> 3

\* --------------------------------------------------- an idle invocation
IdleWf ==
  [pc |-> "idle", slot |-> 0, nid |-> 0, messageId |-> 0, hasUser |-> FALSE, userMessage |-> <<>>,
   initialMessageId |-> 0,
   sessionData |-> EmptySessionData, drillPlan |-> NoPlan,
   attempt |-> 0,
   currentMessageId |-> 0, accumulatedText |-> <<>>, pendingDelta |-> <<>>,
   assistantMessages |-> <<>>, responseMessages |-> <<>>, roundText |-> <<>>,
   round |-> 0, ended |-> FALSE, fin |-> FALSE,
   tool |-> "none", toolPhase |-> "-",
   latest |-> EmptySessionData,
   ntok |-> 0, ncalls |-> 0,
   script |-> <<>>, segIds |-> <<>>, lastTok |-> 0, fx |-> <<>>,
   published |-> <<>>,
   retrigger |-> FALSE,
   recovered |-> {},         \* history: the steps crash recovery ran again
   sentStatus |-> "-", cause |-> "-", err |-> "-"]

\* ------------------------------------------------ the stream consumer
MAX_RETRY_ATTEMPTS == 10
INITIAL_RETRY_DELAY == 1000
MAX_RETRY_DELAY == 30000

StatusCodes == {400, 401, 403, 404, 500}
\* what getToken or fetch or read throws: an Error whose message names the
\* network, one saying the connection was lost, another Error, a non-Error
ThrownKinds == {"network", "lost", "other", "non-error"}

\* a connectToStream call awaiting getToken and fetch, one in its read loop,
\* and one awaiting getToken and fetch whose effect run was cleaned up
FetchingAttempt == [stale |-> FALSE, pc |-> "fetching"]
ReadingAttempt == [stale |-> FALSE, pc |-> "reading"]
StaleAttempt == [stale |-> TRUE, pc |-> "fetching"]

\* the hook after its effects ran for a sessionId: the first connectToStream
\* call is in flight
MountedSSE ==
  [retryCount |-> 0,
   timers |-> EmptyBag,       \* pending setTimeout callbacks of attemptReconnect
   attempts |-> SetToBag({FetchingAttempt}),   \* connectToStream calls in progress
   isManualRetry |-> FALSE,
   conn |-> [reader |-> "none", isCancelled |-> FALSE],   \* connectionRef
   reconnectOnForeground |-> FALSE,
   isReconnecting |-> FALSE,
   connectionError |-> "none",
   rerunPending |-> FALSE,    \* reconnectTrigger changed, effect not yet re-run
   stream |-> "none",         \* the stream behind the effect's reader variable
   streamClosedNormally |-> FALSE,
   nopen |-> 0, nrerun |-> 0, \* history: streams opened, trigger changes
   stopped |-> "no",          \* history: gave up, and what resumed it
   appState |-> "active",     \* what the operating system last reported
   mounted |-> TRUE]          \* the component using the hook is mounted

\* ------------------------------------------------ the event stream route
Conn == 1..MaxConns

\* a connection no request has arrived on
NoRequest ==
  [pc |-> "none",            \* where the route handler is
   code |-> 0,               \* the status it replied with
   closed |-> FALSE,         \* the client has disconnected
   listening |-> FALSE,      \* the 'close' listener is attached
   closing |-> "none",       \* where the 'close' listener is
   subscribed |-> FALSE,     \* messageHandler is subscribed to the channel
   heartbeat |-> FALSE,      \* the heartbeat interval is set
   active |-> FALSE,         \* the connection is in activeConnections
   ended |-> FALSE,          \* reply.raw.end() was called
   writes |-> 0]             \* records written to the reply

\* ------------------------------------------------ the read loop
MessageIds == {1, 2}
Contents == {<<"a">>, <<"b">>}
PhaseIds == {"p1"}

\* the pieces of text a stream is made of: a line feed, the prefix 'data: ',
\* the JSON text of a payload, and the comment ': heartbeat'
Atom(t, payload) == [t |-> t, payload |-> payload]
NoPayload == [type |-> "-", messageId |-> 0, content |-> <<>>, phaseId |-> "-"]
LF == Atom("lf", NoPayload)
DataPrefix == Atom("data: ", NoPayload)
Comment == Atom(": heartbeat", NoPayload)

\* the payloads published on the channel
DeltaPayload(m, content) == [NoPayload EXCEPT !.type = "delta", !.messageId = m,
                                              !.content = content]
CompletePayload(m) == [NoPayload EXCEPT !.type = "complete", !.messageId = m]
PhasePayload(ph) == [NoPayload EXCEPT !.type = "phase-complete", !.phaseId = ph]
Payloads ==
  {DeltaPayload(m, content) : m \in MessageIds, content \in Contents}
    \cup {CompletePayload(m) : m \in MessageIds}
    \cup {PhasePayload(ph) : ph \in PhaseIds}

\* what the route writes for a channel message, and for a heartbeat
DataRecord(payload) == <<DataPrefix, Atom("json", payload), LF, LF>>
HeartbeatRecord == <<Comment, LF, LF>>

\* a stream just opened: nothing written, an empty buffer, no text in flight
FreshReader ==
  [wire |-> <<>>,             \* text written by the route and not yet read
   sent |-> <<>>,             \* history: the records written
   seen |-> <<>>,             \* history: the text read
   buffer |-> <<>>,
   pendingMessages |-> <<>>,  \* messageId -> accumulated text
   processed |-> <<>>,        \* history: the payloads dispatched
   calls |-> <<>>,            \* history: onMessageComplete, onPhaseComplete
   connected |-> TRUE,        \* the route's handler is subscribed
   cursor |-> 0,              \* channel messages the channel has handed out
   drops |-> 0]               \* history: connections lost

\* ------------------------------------------------ the system prompt builder
\* the plans buildDrillSystemPrompt is called with: the phase ids are the
\* strings the plan generator's model returned, the progress map has an entry
\* for any of them
PromptPhaseLists ==
  UNION {[1..n -> ToolArgs] : n \in 0..MaxPhases}
PromptProgressMaps ==
  UNION {[S -> {"incomplete", "complete"}] : S \in SUBSET ToolArgs}
PromptPlans ==
  {NoPlan} \cup
  {[isSet |-> TRUE, phases |-> phases, planProgress |-> progress] :
     phases \in PromptPhaseLists, progress \in PromptProgressMaps}

NoPromptCall == [called |-> FALSE, plan |-> NoPlan, threw |-> FALSE,
                 phasesWithStatus |-> <<>>, currentPhaseInstruction |-> "-"]

\* drillPlan.planProgress[phase.id]?.status
ProgressStatus(plan, id) ==
  IF id \in DOMAIN plan.planProgress THEN plan.planProgress[id] ELSE "undefined"

\* the position of the phase drillPlan.phases.find returns, 0 for undefined
CurrentPhase(plan) ==
  LET S == {k \in 1..Len(plan.phases) :
              ProgressStatus(plan, plan.phases[k]) # "complete"}
  IN IF S = {} THEN 0 ELSE CHOOSE k \in S : \A j \in S : k <= j

\* the lines of phasesWithStatus; isCurrent compares the ids
PhasesWithStatus(plan) ==
  LET cur == CurrentPhase(plan)
  IN [k \in 1..Len(plan.phases) |->
        [id |-> plan.phases[k],
         status |-> IF ProgressStatus(plan, plan.phases[k]) = "undefined"
                      THEN "incomplete"
                      ELSE ProgressStatus(plan, plan.phases[k]),
         isCurrent |-> cur # 0 /\ plan.phases[cur] = plan.phases[k]]]

\* buildDrillSystemPrompt: reading drillPlan.phases of a null plan throws
buildDrillSystemPrompt(plan) ==
  IF ~plan.isSet
  THEN [NoPromptCall EXCEPT !.called = TRUE, !.threw = TRUE]
  ELSE [called |-> TRUE, plan |-> plan, threw |-> FALSE,
        phasesWithStatus |-> PhasesWithStatus(plan),
        currentPhaseInstruction |->
          IF CurrentPhase(plan) = 0 THEN "All phases are complete"
          ELSE plan.phases[CurrentPhase(plan)]]

Init ==
  /\ status = "preparing"
  /\ drillPlan = NoPlan
  /\ chatEvents = <<>>
  /\ aiSdkMessages = <<>>
  /\ completionData = 0
  /\ genPc = "generate"
  /\ genPlan = <<>>
  /\ sumPending = 0
  /\ nFinish = 0
  /\ wf = [i \in Inv |-> IdleWf]
  /\ sse = MountedSSE
  /\ conns = [c \in Conn |-> NoRequest]
  /\ rx = FreshReader
  /\ prompt = NoPromptCall

\* the slot the next started workflow takes
FreeSlot(i) == wf[i].pc = "idle" /\ \A j \in Inv : j < i => wf[j].pc # "idle"

\* crypto.randomUUID(): ids never collide; Uuid(i, k) is the k-th id drawn on
\* behalf of invocation i (k = 0 by whoever starts it)
IdStride == 2 * (MaxToolCalls + SysToolCalls) + 3
Uuid(i, k) == i * IdStride + k

\* a workflow function that starts at its third step
StartedWf_SkipLoad(i, messageId, hasUser, userMessage) ==
  [IdleWf EXCEPT !.pc = "stream", !.slot = i, !.nid = 2,
                 !.messageId = messageId, !.hasUser = hasUser,
                 !.userMessage = userMessage,
                 !.initialMessageId = Uuid(i, 1)]

\* processDrillMessageWorkflowFunction up to its first step: the input and the
\* initialMessageId drawn at its start
StartedWf(i, messageId, hasUser, userMessage) ==
  [IdleWf EXCEPT !.pc = "load", !.slot = i, !.nid = 2,
                 !.messageId = messageId, !.hasUser = hasUser,
                 !.userMessage = userMessage,
                 !.initialMessageId = Uuid(i, 1)]

\* ===================================================== plan generator
\* generatePlanStep: the model returns a phase list
GeneratePlan(phases) ==
  /\ genPc = "generate"
  /\ genPlan' = phases
  /\ genPc' = "store"
  /\ UNCHANGED <<sse, conns, rx, prompt, status, drillPlan, chatEvents, aiSdkMessages, completionData,
                 sumPending, nFinish, wf>>

\* planWithProgress of storePlanAndUpdateStatusStep
PlanWithProgress(phases) ==
  [isSet |-> TRUE, phases |-> phases,
   planProgress |-> [p \in Range(phases) |-> "incomplete"]]

StorePlanAndUpdateStatus ==
  /\ genPc = "store"
  /\ drillPlan' = PlanWithProgress(genPlan)
  /\ status' = "ready"
  /\ genPc' = "start"
  /\ UNCHANGED <<sse, conns, rx, prompt, chatEvents, aiSdkMessages, completionData, genPlan,
                 sumPending, nFinish, wf>>

\* step 4 of generateDrillPlanWorkflowFunction: the engine with userMessage null
StartInitialMessage(i) ==
  /\ genPc = "start"
  /\ FreeSlot(i)
  /\ wf' = [wf EXCEPT ![i] = StartedWf(i, Uuid(i, 0), FALSE, <<>>)]
  /\ genPc' = "done"
  /\ UNCHANGED <<sse, conns, rx, prompt, status, drillPlan, chatEvents, aiSdkMessages, completionData,
                 genPlan, sumPending, nFinish>>

\* ======================================================== drill router
\* sendMessage: no status check; the workflow is started and not awaited
SendMessage(i, text) ==
  /\ FreeSlot(i)
  /\ wf' = [wf EXCEPT ![i] = [StartedWf(i, Uuid(i, 0), TRUE, text)
                               EXCEPT !.sentStatus = status]]
  /\ UNCHANGED <<sse, conns, rx, prompt, status, drillPlan, chatEvents, aiSdkMessages, completionData,
                 genPc, genPlan, sumPending, nFinish>>

FinishSession ==
  /\ nFinish < MaxFinish
  /\ status' = "chat-completed"
  /\ sumPending' = sumPending + 1
  /\ nFinish' = nFinish + 1
  /\ UNCHANGED <<sse, conns, rx, prompt, drillPlan, chatEvents, aiSdkMessages, completionData, genPc,
                 genPlan, wf>>

\* storeCompletionDataStep; completionData counts the summaries written
StoreCompletionData ==
  /\ sumPending > 0
  /\ completionData' = completionData + 1
  /\ status' = "completed"
  /\ sumPending' = sumPending - 1
  /\ UNCHANGED <<sse, conns, rx, prompt, drillPlan, chatEvents, aiSdkMessages, genPc, genPlan,
                 nFinish, wf>>

\* ================================================ conversation step engine
\* the locals of streamLLMResponseStep at the start of an attempt
StartAttempt(w) ==
  [w EXCEPT !.pc = "stream", !.attempt = @ + 1,
            !.currentMessageId = w.initialMessageId,
            !.accumulatedText = <<>>, !.pendingDelta = <<>>,
            !.assistantMessages = <<>>, !.responseMessages = <<>>,
            !.roundText = <<>>, !.round = 1, !.ended = FALSE, !.fin = FALSE,
            !.tool = "none", !.toolPhase = "-",
            !.script = <<>>, !.segIds = <<w.initialMessageId>>,
            !.lastTok = 0, !.fx = <<>>, !.published = <<>>]

\* step 1, and the else branch of step 2 when the model speaks first
LoadSessionAndTopic(i) ==
  LET w == wf[i]
      loaded == [w EXCEPT !.sessionData = [chatEvents |-> chatEvents,
                                           aiSdkMessages |-> aiSdkMessages],
                          !.drillPlan = drillPlan]
  IN /\ w.pc = "load"
     /\ wf' = [wf EXCEPT ![i] = IF w.hasUser
                                  THEN [loaded EXCEPT !.pc = "storeUser"]
                                  ELSE StartAttempt(loaded)]
     /\ UNCHANGED <<sse, conns, rx, prompt, status, drillPlan, chatEvents, aiSdkMessages,
                    completionData, genPc, genPlan, sumPending, nFinish>>

\* the Error loadSessionAndTopicStep throws when a query returns no row
LoadError(cause) ==
  IF cause = "no-topic" THEN "Learning topic not found"
                        ELSE "Drill session not found or access denied"

\* a step 1 that is run again after its error
AfterLoadThrow_Retry(w, e) == [w EXCEPT !.err = e]

\* step 1 runs without retriesAllowed: its error ends the workflow
AfterLoadThrow(w, e) == [w EXCEPT !.pc = "failed", !.err = e]

\* step 1 on an input whose sessionId and userId select no session row, or
\* whose session's topic row is gone
LoadFails(i, cause) ==
  LET w == wf[i]
  IN /\ w.pc = "load" /\ w.err = "-"
     /\ wf' = [wf EXCEPT ![i] =
          AfterLoadThrow([w EXCEPT !.cause = cause], LoadError(cause))]
     /\ UNCHANGED <<sse, conns, rx, prompt, status, drillPlan, chatEvents, aiSdkMessages,
                    completionData, genPc, genPlan, sumPending, nFinish>>

\* storeUserMessageStep: sessionData after the push
WithUserMessage(sd, messageId, userMessage) ==
  [sd EXCEPT !.chatEvents =
     Append(@, ChatMessageEvent(messageId, "user", userMessage))]

\* a step that appends to the session as it is stored now
existingSessionData_Stored(w) ==
  [chatEvents |-> chatEvents, aiSdkMessages |-> aiSdkMessages]

\* the argument of storeUserMessageStep: session.sessionData as the load
\* step returned it, which is the recorded output when the workflow is
\* recovered
existingSessionData(w) == w.sessionData

StoreUserMessage(i) ==
  LET w == wf[i]
      sd == WithUserMessage(existingSessionData(w), w.messageId, w.userMessage)
  IN /\ w.pc = "storeUser"
     /\ chatEvents' = sd.chatEvents
     /\ aiSdkMessages' = sd.aiSdkMessages
     /\ wf' = [wf EXCEPT ![i] = StartAttempt([w EXCEPT !.sessionData = sd])]
     /\ UNCHANGED <<sse, conns, rx, prompt, status, drillPlan, completionData, genPc, genPlan,
                    sumPending, nFinish>>

\* inputMessages of streamLLMResponseStep
InputMessages(w) ==
  w.sessionData.aiSdkMessages \o
    (IF w.hasUser THEN <<ModelMessage("user", w.userMessage, <<>>)>> ELSE <<>>)

\* flushDelta: the locals after it and what it published
FlushDelta(w) ==
  IF w.pendingDelta # <<>>
    THEN [w |-> [w EXCEPT !.pendingDelta = <<>>],
          out |-> <<ChannelMsg("delta", w.currentMessageId, "-",
                               w.pendingDelta, w.lastTok)>>]
    ELSE [w |-> w, out |-> <<>>]

\* a finalizeCurrentMessage that keeps the id for the next segment
FinalizeCurrentMessage_SameId(w) ==
  LET f == FlushDelta(w)
  IN IF NonWs(f.w.accumulatedText)
       THEN [w |-> [f.w EXCEPT
                      !.assistantMessages =
                         Append(@, [id |-> f.w.currentMessageId,
                                    content |-> f.w.accumulatedText]),
                      !.accumulatedText = <<>>,
                      !.segIds = Append(@, f.w.currentMessageId)],
             out |-> f.out \o
                     <<ChannelMsg("complete", f.w.currentMessageId, "-", <<>>,
                                  f.w.lastTok)>>]
       ELSE [w |-> f.w, out |-> f.out]

\* finalizeCurrentMessage; the new id is drawn only when the text is kept
FinalizeCurrentMessage(w) ==
  LET f == FlushDelta(w)
      fresh == Uuid(w.slot, w.nid)
  IN IF NonWs(f.w.accumulatedText)
       THEN [w |-> [f.w EXCEPT
                      !.assistantMessages =
                         Append(@, [id |-> f.w.currentMessageId,
                                    content |-> f.w.accumulatedText]),
                      !.currentMessageId = fresh,
                      !.nid = @ + 1,
                      !.accumulatedText = <<>>,
                      !.segIds = Append(@, fresh)],
             out |-> f.out \o
                     <<ChannelMsg("complete", f.w.currentMessageId, "-", <<>>,
                                  f.w.lastTok)>>]
       ELSE [w |-> f.w, out |-> f.out]

\* text-delta and tool-call chunks emitted so far, over all invocations
TokensUsed ==
  LET S[k \in 0..MaxInv] == IF k = 0 THEN 0 ELSE S[k - 1] + wf[k].ntok
  IN S[MaxInv]

CallsUsed ==
  LET S[k \in 0..MaxInv] == IF k = 0 THEN 0 ELSE S[k - 1] + wf[k].ncalls
  IN S[MaxInv]

\* buildDrillSystemPrompt returns: it reads drillPlan.phases of the plan the
\* workflow loaded
HasPrompt(w) == ~buildDrillSystemPrompt(w.drillPlan).threw

\* the loop is ready to take the next chunk of fullStream; there is a stream
\* only if buildDrillSystemPrompt returned
CanChunk(w) ==
  w.pc = "stream" /\ HasPrompt(w) /\ ~w.fin /\ w.tool = "none"

\* a text-delta chunk; flush is timeSinceLastFlush >= BATCH_INTERVAL_MS
TextDelta(i, t, flush, maxTok) ==
  LET w == wf[i]
      w1 == [w EXCEPT !.accumulatedText = Append(@, t),
                      !.pendingDelta = Append(@, t),
                      !.roundText = Append(@, t),
                      !.script = Append(@, TextChunk(t)),
                      !.lastTok = Len(w.script) + 1,
                      !.ntok = @ + 1]
      f == IF flush THEN FlushDelta(w1) ELSE [w |-> w1, out |-> <<>>]
  IN /\ CanChunk(w) /\ ~w.ended
     /\ TokensUsed < maxTok
     /\ wf' = [wf EXCEPT ![i] = Publish(f.w, f.out)]
     /\ UNCHANGED <<sse, conns, rx, prompt, status, drillPlan, chatEvents, aiSdkMessages,
                    completionData, genPc, genPlan, sumPending, nFinish>>

NewFx(idx, p) ==
  [idx |-> idx, phaseId |-> p, flipped |-> FALSE, appended |-> FALSE,
   persisted |-> FALSE, broadcast |-> FALSE]

\* a tool-call chunk: it ends the model's round; the loop goes to
\* finalizeCurrentMessage while the SDK runs the tool's execute
ToolCall(i, p, maxCalls) ==
  LET w == wf[i]
  IN /\ CanChunk(w) /\ ~w.ended
     /\ CallsUsed < maxCalls
     /\ wf' = [wf EXCEPT ![i] =
          [w EXCEPT !.fin = TRUE, !.tool = "exec", !.toolPhase = p,
                    !.script = Append(@, ToolChunk(p)),
                    !.ncalls = @ + 1,
                    !.responseMessages = @ \o
                       <<ModelMessage("assistant", w.roundText, <<p>>),
                         ModelMessage("tool", <<>>, <<p>>)>>,
                    !.roundText = <<>>,
                    !.round = IF w.round < MaxSteps THEN @ + 1 ELSE @,
                    !.ended = (w.round >= MaxSteps),
                    !.fx = Append(@, NewFx(Len(w.script) + 1, p))]]
     /\ UNCHANGED <<sse, conns, rx, prompt, status, drillPlan, chatEvents, aiSdkMessages,
                    completionData, genPc, genPlan, sumPending, nFinish>>

\* the loop's await finalizeCurrentMessage() on a tool-call chunk
Finalize(i) ==
  LET w == wf[i]
      f == FinalizeCurrentMessage(w)
  IN /\ w.pc = "stream" /\ w.fin
     /\ wf' = [wf EXCEPT ![i] = Publish([f.w EXCEPT !.fin = FALSE], f.out)]
     /\ UNCHANGED <<sse, conns, rx, prompt, status, drillPlan, chatEvents, aiSdkMessages,
                    completionData, genPc, genPlan, sumPending, nFinish>>

\* drillPlan.planProgress[phaseId] = { status: 'complete' }
MarkComplete(plan, p) ==
  [plan EXCEPT !.planProgress =
     [q \in DOMAIN plan.planProgress \cup {p} |->
        IF q = p THEN "complete" ELSE plan.planProgress[q]]]

\* sessionData.chatEvents.push(phaseCompleteEvent)
WithPhaseComplete(sd, id, p) ==
  [sd EXCEPT !.chatEvents = Append(@, PhaseCompleteEvent(id, p))]

LastFx(w) == w.fx[Len(w.fx)]

\* a tool write of the plan as it was loaded
ToolDbPlan_Stale(w, plan) == w.drillPlan

\* a tool write that also stores the text accumulated so far
ToolDbSessionData_WithPartial(w, sd) ==
  [sd EXCEPT !.chatEvents =
     Append(@, ChatMessageEvent(w.currentMessageId, "assistant",
                                w.accumulatedText))]

\* what the tool's db.update sets
ToolDbPlan(w, plan) == plan
ToolDbSessionData(w, sd) == sd

\* markPhaseCompleteTool.execute up to the end of its db.update
ToolExecute(i) ==
  LET w == wf[i]
      p == w.toolPhase
      id == Uuid(w.slot, w.nid)
      plan2 == MarkComplete(w.drillPlan, p)
      sd2 == WithPhaseComplete(w.sessionData, id, p)
      IsEv(e) == e.eventType = "phase-complete" /\ e.id = id /\ e.phaseId = p
  IN /\ w.pc = "stream" /\ w.tool = "exec"
     /\ drillPlan' = ToolDbPlan(w, plan2)
     /\ chatEvents' = ToolDbSessionData(w, sd2).chatEvents
     /\ aiSdkMessages' = ToolDbSessionData(w, sd2).aiSdkMessages
     /\ wf' = [wf EXCEPT ![i] =
          [w EXCEPT !.drillPlan = plan2, !.sessionData = sd2,
                    !.nid = @ + 1,
                    !.tool = "publish",
                    !.fx[Len(w.fx)] =
                       [@ EXCEPT
                          !.flipped = (plan2.planProgress[p] = "complete"),
                          !.appended = (\E e \in Range(sd2.chatEvents) : IsEv(e)),
                          !.persisted =
                             /\ p \in DOMAIN drillPlan'.planProgress
                             /\ drillPlan'.planProgress[p] = "complete"
                             /\ \E e \in Range(chatEvents') : IsEv(e)]]]
     /\ UNCHANGED <<sse, conns, rx, prompt, status, completionData, genPc, genPlan, sumPending, nFinish>>

\* the rest of execute: the phase-complete publish, then it returns
ToolPublish(i) ==
  LET w == wf[i]
  IN /\ w.pc = "stream" /\ w.tool = "publish"
     /\ wf' = [wf EXCEPT ![i] =
          Publish([w EXCEPT !.tool = "none",
                            !.fx[Len(w.fx)] = [@ EXCEPT !.broadcast = TRUE]],
                  <<ChannelMsg("phase-complete", 0, w.toolPhase, <<>>,
                               LastFx(w).idx)>>)]
     /\ UNCHANGED <<sse, conns, rx, prompt, status, drillPlan, chatEvents, aiSdkMessages,
                    completionData, genPc, genPlan, sumPending, nFinish>>

\* the end of the stream without the test of accumulatedText.trim()
StreamResult_NoTrim(w) ==
  LET f == FlushDelta(w)
  IN [w |-> [f.w EXCEPT
               !.assistantMessages =
                  Append(@, [id |-> f.w.currentMessageId,
                             content |-> f.w.accumulatedText]),
               !.responseMessages =
                  IF w.ended THEN @
                  ELSE Append(@, ModelMessage("assistant", w.roundText, <<>>))],
      out |-> f.out \o
              <<ChannelMsg("complete", f.w.currentMessageId, "-", <<>>,
                           f.w.lastTok)>>]

\* fullStream is exhausted: the final flush and complete, then the result
StreamResult(w) ==
  LET f == FlushDelta(w)
      last == NonWs(f.w.accumulatedText)
  IN [w |-> [f.w EXCEPT
               !.assistantMessages =
                  IF last THEN Append(@, [id |-> f.w.currentMessageId,
                                          content |-> f.w.accumulatedText])
                          ELSE @,
               !.responseMessages =
                  IF w.ended THEN @
                  ELSE Append(@, ModelMessage("assistant", w.roundText, <<>>))],
      out |-> f.out \o
              (IF last THEN <<ChannelMsg("complete", f.w.currentMessageId, "-",
                                         <<>>, f.w.lastTok)>>
                       ELSE <<>>)]

StreamEnd(i) ==
  LET w == wf[i]
      r == StreamResult(w)
  IN /\ CanChunk(w)
     /\ wf' = [wf EXCEPT ![i] = Publish([r.w EXCEPT !.pc = "reload"], r.out)]
     /\ UNCHANGED <<sse, conns, rx, prompt, status, drillPlan, chatEvents, aiSdkMessages,
                    completionData, genPc, genPlan, sumPending, nFinish>>

\* a retry policy without the cap on attempts
AfterThrow_NoCap(w) == StartAttempt(w)

\* a retry policy that does not count the attempts
AfterThrow_Uncounted(w) == [StartAttempt(w) EXCEPT !.attempt = w.attempt]

\* the step function threw: DBOS runs it again, on the same sessionData and
\* drillPlan objects, until maxAttempts
AfterThrow(w) ==
  IF w.attempt < StreamMaxAttempts THEN StartAttempt(w)
                                   ELSE [w EXCEPT !.pc = "failed"]

\* buildDrillSystemPrompt throws on a session whose plan is not stored yet
BuildPromptThrows(i) ==
  LET w == wf[i]
  IN /\ w.pc = "stream" /\ ~HasPrompt(w)
     /\ wf' = [wf EXCEPT ![i] = AfterThrow(w)]
     /\ UNCHANGED <<sse, conns, rx, prompt, status, drillPlan, chatEvents, aiSdkMessages,
                    completionData, genPc, genPlan, sumPending, nFinish>>

\* the model call fails
StreamFail(i) ==
  LET w == wf[i]
  IN /\ CanChunk(w)
     /\ wf' = [wf EXCEPT ![i] = AfterThrow(w)]
     /\ UNCHANGED <<sse, conns, rx, prompt, status, drillPlan, chatEvents, aiSdkMessages,
                    completionData, genPc, genPlan, sumPending, nFinish>>

\* a fourth step that hands the fifth an empty sessionData
ReloadSessionData_Default(i) ==
  LET w == wf[i]
  IN /\ w.pc = "reload"
     /\ wf' = [wf EXCEPT ![i] = [w EXCEPT !.latest = EmptySessionData,
                                          !.pc = "storeAsst"]]
     /\ UNCHANGED <<sse, conns, rx, prompt, status, drillPlan, chatEvents, aiSdkMessages,
                    completionData, genPc, genPlan, sumPending, nFinish>>

\* reloadSessionDataStep
ReloadSessionData(i) ==
  LET w == wf[i]
  IN /\ w.pc = "reload"
     /\ wf' = [wf EXCEPT ![i] =
          [w EXCEPT !.latest = [chatEvents |-> chatEvents,
                                aiSdkMessages |-> aiSdkMessages],
                    !.pc = "storeAsst"]]
     /\ UNCHANGED <<sse, conns, rx, prompt, status, drillPlan, chatEvents, aiSdkMessages,
                    completionData, genPc, genPlan, sumPending, nFinish>>

RECURSIVE AssistantEvents(_)
AssistantEvents(msgs) ==
  IF msgs = <<>> THEN <<>>
  ELSE <<ChatMessageEvent(Head(msgs).id, "assistant", Head(msgs).content)>>
       \o AssistantEvents(Tail(msgs))

\* the assistant messages put in front of the log that was read again
WithAssistantMessages_InFront(sd, assistantMessages, responseMessages, hasUser, userMessage) ==
  [chatEvents |-> AssistantEvents(assistantMessages) \o sd.chatEvents,
   aiSdkMessages |->
     sd.aiSdkMessages
       \o (IF hasUser THEN <<ModelMessage("user", userMessage, <<>>)>> ELSE <<>>)
       \o responseMessages]

\* storeAssistantMessagesStep: sessionData after its pushes
WithAssistantMessages(sd, assistantMessages, responseMessages, hasUser, userMessage) ==
  [chatEvents |-> sd.chatEvents \o AssistantEvents(assistantMessages),
   aiSdkMessages |->
     sd.aiSdkMessages
       \o (IF hasUser THEN <<ModelMessage("user", userMessage, <<>>)>> ELSE <<>>)
       \o responseMessages]

StoreAssistantMessages(i) ==
  LET w == wf[i]
      sd == WithAssistantMessages(w.latest, w.assistantMessages,
                                  w.responseMessages, w.hasUser, w.userMessage)
  IN /\ w.pc = "storeAsst"
     /\ chatEvents' = sd.chatEvents
     /\ aiSdkMessages' = sd.aiSdkMessages
     /\ wf' = [wf EXCEPT ![i] = [w EXCEPT !.latest = sd, !.pc = "done"]]
     /\ UNCHANGED <<sse, conns, rx, prompt, status, drillPlan, completionData, genPc, genPlan,
                    sumPending, nFinish>>

\* the process dies after the update of storeUserMessageStep and before the
\* step's output is recorded: recovery runs the workflow again, the load
\* step returns its recorded output and the step is executed again
CrashInStoreUserMessage(i) ==
  LET w == wf[i]
      sd == WithUserMessage(existingSessionData(w), w.messageId, w.userMessage)
  IN /\ w.pc = "storeUser"
     /\ "storeUser" \notin w.recovered
     /\ chatEvents' = sd.chatEvents
     /\ aiSdkMessages' = sd.aiSdkMessages
     /\ wf' = [wf EXCEPT ![i].recovered = @ \cup {"storeUser"}]
     /\ UNCHANGED <<sse, conns, rx, prompt, status, drillPlan, completionData, genPc, genPlan,
                    sumPending, nFinish>>

\* the same for storeAssistantMessagesStep, whose input is the recorded
\* output of the reload step
CrashInStoreAssistantMessages(i) ==
  LET w == wf[i]
      sd == WithAssistantMessages(w.latest, w.assistantMessages,
                                  w.responseMessages, w.hasUser, w.userMessage)
  IN /\ w.pc = "storeAsst"
     /\ "storeAsst" \notin w.recovered
     /\ chatEvents' = sd.chatEvents
     /\ aiSdkMessages' = sd.aiSdkMessages
     /\ wf' = [wf EXCEPT ![i].recovered = @ \cup {"storeAsst"}]
     /\ UNCHANGED <<sse, conns, rx, prompt, status, drillPlan, completionData, genPc, genPlan,
                    sumPending, nFinish>>

\* a query or update of a step that runs without retries rejects: the step
\* throws and the workflow ends with that error
DbError(i) ==
  LET w == wf[i]
  IN /\ w.pc \in {"load", "storeUser", "reload", "storeAsst"}
     /\ w.err = "-"
     /\ wf' = [wf EXCEPT ![i] = [w EXCEPT !.pc = "failed", !.err = "db error"]]
     /\ UNCHANGED <<sse, conns, rx, prompt, status, drillPlan, chatEvents, aiSdkMessages,
                    completionData, genPc, genPlan, sumPending, nFinish>>

\* the registered workflow started again from outside with an input it has
\* already been given
Retrigger(i, j) ==
  /\ FreeSlot(i)
  /\ wf[j].pc \in {"done", "failed"}
  /\ wf[j].hasUser
  /\ wf' = [wf EXCEPT ![i] =
       [StartedWf(i, wf[j].messageId, TRUE, wf[j].userMessage)
          EXCEPT !.retrigger = TRUE]]
  /\ UNCHANGED <<sse, conns, rx, prompt, status, drillPlan, chatEvents, aiSdkMessages, completionData,
                 genPc, genPlan, sumPending, nFinish>>

\* ------------------------------------------------------ useDrillSSE
Min(a, b) == IF a < b THEN a ELSE b

\* the message of a thrown value holds one of the words the hook looks for;
\* "status" is the Error the hook builds for a response that is not ok
HasRetryWord(kind) == kind \in {"network", "lost", "status"}

\* isRetryableError without its list of status codes
isRetryableError_NoStatusList(kind, statusCode) ==
  IF kind # "non-error" THEN HasRetryWord(kind) ELSE TRUE

\* statusCode 0 stands for an absent status code
isRetryableError(kind, statusCode) ==
  IF statusCode \in {400, 401, 403, 404} THEN FALSE
  ELSE IF kind # "non-error" THEN HasRetryWord(kind)
  ELSE TRUE

isBackgroundError(kind) == kind = "lost"

calculateRetryDelay(attemptNumber) ==
  Min(INITIAL_RETRY_DELAY * 2^(attemptNumber - 1), MAX_RETRY_DELAY)

\* the timer retryTimeoutIdRef names, if it is still pending
Referenced(timers) == {t \in BagToSet(timers) : t.ref}

\* clearTimeout(retryTimeoutIdRef.current): only the timer set last is known
ClearRetryTimeout(timers) == timers (-) SetToBag(Referenced(timers))

\* retryTimeoutIdRef is overwritten: the timer it named stays pending
Unref(timers) ==
  ClearRetryTimeout(timers)
    (+) SetToBag({[t EXCEPT !.ref = FALSE] : t \in Referenced(timers)})

\* the three lines every terminal branch runs; React drops a state update
\* of a component that is no longer mounted
SetTerminalError(s, msg) ==
  [s EXCEPT !.connectionError = IF s.mounted THEN msg ELSE @,
            !.isReconnecting = IF s.mounted THEN FALSE ELSE @,
            !.reconnectOnForeground = FALSE]

\* attemptReconnect of the effect run whose isCancelled is `stale`
attemptReconnect(s, stale) ==
  IF stale THEN s
  ELSE IF s.retryCount >= MAX_RETRY_ATTEMPTS
  THEN [SetTerminalError(s, "Connection lost") EXCEPT !.stopped = "gave-up"]
  ELSE [s EXCEPT !.isReconnecting = TRUE,
                 !.timers = Unref(@) (+) SetToBag({
                   [count |-> s.retryCount,
                    delay |-> calculateRetryDelay(s.retryCount + 1),
                    ref |-> TRUE]})]

\* connectToStream up to its first await
connectToStream(s, stale) ==
  IF stale THEN s
  ELSE LET s1 == IF s.isManualRetry
                 THEN [s EXCEPT !.isManualRetry = FALSE, !.retryCount = 0,
                                !.connectionError = "none",
                                !.isReconnecting = FALSE]
                 ELSE s
       IN [s1 EXCEPT !.attempts = @ (+) SetToBag({FetchingAttempt})]

\* the state once the call a has returned
Returns(s, a) == [s EXCEPT !.attempts = @ (-) SetToBag({a})]

Fetching(a) == a \in BagToSet(sse.attempts) /\ a.pc = "fetching"
Reading(a) == a \in BagToSet(sse.attempts) /\ a.pc = "reading"

\* the response is not ok
FetchNotOk(a, code) ==
  /\ Fetching(a)
  /\ LET s0 == Returns(sse, a)
     IN sse' = IF isRetryableError("status", code) /\ ~a.stale
               THEN attemptReconnect(s0, FALSE)
               ELSE SetTerminalError(s0,
                      IF code \in {401, 403} THEN "Authentication error"
                      ELSE "Error status")
  /\ UNCHANGED <<serverVars, conns, rx, prompt>>

\* the response is ok and has no body
FetchNoBody(a) ==
  /\ Fetching(a)
  /\ sse' = attemptReconnect(Returns(sse, a), a.stale)
  /\ UNCHANGED <<serverVars, conns, rx, prompt>>

\* getToken or fetch throws
FetchThrows(a, kind) ==
  /\ Fetching(a)
  /\ LET s0 == Returns(sse, a)
     IN sse' = IF a.stale \/ isBackgroundError(kind) THEN s0
               ELSE IF isRetryableError(kind, 0)
               THEN attemptReconnect(s0, FALSE)
               ELSE SetTerminalError(s0, "Connection failed")
  /\ UNCHANGED <<serverVars, conns, rx, prompt>>

\* the refs and state a successful connection sets
AfterOpen(s, stale) ==
  [s EXCEPT !.conn = [reader |-> IF stale THEN "stale" ELSE "cur",
                      isCancelled |-> stale],
            !.retryCount = 0,
            !.isReconnecting = IF s.mounted THEN FALSE ELSE @,
            !.connectionError = IF s.mounted THEN "none" ELSE @,
            !.reconnectOnForeground = FALSE,
            !.stream = IF stale THEN @ ELSE "open",
            !.streamClosedNormally = IF stale THEN @ ELSE FALSE,
            !.nopen = @ + 1]

\* the response is ok: the reader is stored and the read loop begins, or is
\* skipped by a run already cleaned up
FetchOk(a) ==
  /\ Fetching(a)
  /\ sse.nopen < MaxOpens
  /\ LET s1 == Returns(AfterOpen(sse, a.stale), a)
     IN sse' = IF a.stale THEN s1
               ELSE [s1 EXCEPT !.attempts = @ (+) SetToBag({ReadingAttempt})]
  /\ UNCHANGED <<serverVars, conns, rx, prompt>>

\* read() reports done: the server ended the response or the reader was
\* cancelled
ReadDone(a) ==
  /\ Reading(a)
  /\ sse' = [Returns(sse, a) EXCEPT !.streamClosedNormally = TRUE]
  /\ UNCHANGED <<serverVars, conns, rx, prompt>>

\* read() throws; a cancelled reader throws nothing but the loss of the
\* connection
ReadThrows(a, kind) ==
  /\ Reading(a)
  /\ sse.stream = "open" \/ isBackgroundError(kind)
  /\ LET s0 == Returns(sse, a)
         s1 == IF isBackgroundError(kind) THEN s0
               ELSE attemptReconnect([s0 EXCEPT !.streamClosedNormally = FALSE],
                                     FALSE)
     IN sse' = IF ~s1.streamClosedNormally /\ ~s1.reconnectOnForeground
               THEN attemptReconnect(s1, FALSE)
               ELSE s1
  /\ UNCHANGED <<serverVars, conns, rx, prompt>>

\* the callback of a retry timer; its delay is a second or more, and React
\* re-runs an effect whose dependency changed within the render that follows
TimerFires(t) ==
  /\ t \in BagToSet(sse.timers)
  /\ ~sse.rerunPending
  /\ sse' = IF ~sse.mounted THEN [sse EXCEPT !.timers = @ (-) SetToBag({t})]
            ELSE connectToStream(
                   [sse EXCEPT !.timers = @ (-) SetToBag({t}),
                               !.retryCount = t.count + 1],
                   FALSE)
  /\ UNCHANGED <<serverVars, conns, rx, prompt>>

\* handleAppStateChange('background' or 'inactive')
AppBackground ==
  /\ sse.mounted
  /\ sse' = IF sse.conn.isCancelled THEN [sse EXCEPT !.appState = "background"]
            ELSE [sse EXCEPT
                    !.appState = "background",
                    !.conn = [reader |-> "none", isCancelled |-> TRUE],
                    !.stream = IF sse.conn.reader = "cur" /\ @ = "open"
                               THEN "cancelled" ELSE @,
                    !.reconnectOnForeground = TRUE,
                    !.timers = ClearRetryTimeout(@)]
  /\ UNCHANGED <<serverVars, conns, rx, prompt>>

\* handleAppStateChange('active')
AppActive ==
  /\ sse.mounted
  /\ sse.reconnectOnForeground => sse.nrerun < MaxReruns
  /\ sse' = IF ~sse.reconnectOnForeground THEN [sse EXCEPT !.appState = "active"]
            ELSE [sse EXCEPT
                    !.appState = "active",
                    !.reconnectOnForeground = FALSE,
                    !.retryCount = 0,
                    !.isManualRetry = TRUE,
                    !.connectionError = "none",
                    !.isReconnecting = TRUE,
                    !.rerunPending = TRUE,
                    !.nrerun = @ + 1,
                    !.stopped = IF @ = "gave-up" THEN "foreground" ELSE @]
  /\ UNCHANGED <<serverVars, conns, rx, prompt>>

handleManualRetry ==
  /\ sse.mounted
  /\ sse.nrerun < MaxReruns
  /\ sse' = [sse EXCEPT
               !.timers = ClearRetryTimeout(@),
               !.retryCount = 0,
               !.isManualRetry = TRUE,
               !.connectionError = "none",
               !.isReconnecting = TRUE,
               !.rerunPending = TRUE,
               !.nrerun = @ + 1,
               !.stopped = "no"]
  /\ UNCHANGED <<serverVars, conns, rx, prompt>>

\* what a cleaned-up run can still do: its timers' callbacks return at once
\* and its read loop ends with the cancelled reader, so only its calls
\* awaiting getToken or fetch are kept
MarkStale(attempts) ==
  LET n == CopiesIn(FetchingAttempt, attempts) + CopiesIn(StaleAttempt, attempts)
  IN IF n = 0 THEN EmptyBag ELSE [a \in {StaleAttempt} |-> n]

\* the cleanup of the effect
Cleanup(s) ==
  [s EXCEPT !.conn = [reader |-> "none", isCancelled |-> TRUE],
            !.stream = IF @ = "open" THEN "cancelled" ELSE @,
            !.streamClosedNormally = TRUE,
            !.timers = EmptyBag,
            !.attempts = MarkStale(@),
            !.retryCount = 0,
            !.isManualRetry = FALSE,
            !.reconnectOnForeground = FALSE,
            !.isReconnecting = FALSE]

\* reconnectTrigger changed: React runs the cleanup and the effect again
EffectRerun ==
  /\ sse.mounted
  /\ sse.rerunPending
  /\ sse' = connectToStream(
              [Cleanup(sse) EXCEPT
                 !.conn = [reader |-> "none", isCancelled |-> FALSE],
                 !.stream = "none",
                 !.streamClosedNormally = FALSE,
                 !.rerunPending = FALSE],
              FALSE)
  /\ UNCHANGED <<serverVars, conns, rx, prompt>>

\* the component unmounts: the cleanup runs and no effect follows it; of the
\* timers only the one retryTimeoutIdRef names is cleared
Unmount ==
  /\ sse.mounted
  /\ sse' = [Cleanup(sse) EXCEPT !.timers = ClearRetryTimeout(sse.timers),
                                 !.rerunPending = FALSE,
                                 !.mounted = FALSE]
  /\ UNCHANGED <<serverVars, conns, rx, prompt>>

\* ------------------------------------------- GET /api/drill/stream/:id
RouteFrame == UNCHANGED <<serverVars, sse, rx, prompt>>

\* a request arrives; a bad id or a missing user is answered at once
Request(c, code) ==
  /\ conns[c].pc = "none"
  /\ code \in {0, 400, 401}
  /\ conns' = [conns EXCEPT ![c].pc = IF code = 0 THEN "query" ELSE "replied",
                            ![c].code = code]
  /\ RouteFrame

\* the ownership query returns: 404, or the 200 head is written and the
\* handler awaits channel.subscribe
QueryReturns(c, found) ==
  /\ conns[c].pc = "query"
  /\ conns' = [conns EXCEPT ![c].pc = IF found THEN "subscribe" ELSE "replied",
                            ![c].code = IF found THEN 200 ELSE 404]
  /\ RouteFrame

\* channel.subscribe resolves: the heartbeat is set, the connection tracked,
\* and only now the 'close' listener attached
SubscribeReturns(c) ==
  /\ conns[c].pc = "subscribe"
  /\ conns' = [conns EXCEPT ![c].pc = "open",
                            ![c].subscribed = TRUE,
                            ![c].heartbeat = TRUE,
                            ![c].active = TRUE,
                            ![c].listening = TRUE]
  /\ RouteFrame

\* what the 'close' event does: a listener attached runs up to its await,
\* an event nobody listens to is lost
EmitClose(conn) ==
  IF conn.listening /\ conn.closing = "none"
  THEN [conn EXCEPT !.heartbeat = FALSE, !.closing = "unsubscribe"]
  ELSE conn

\* the client disconnects while its request is being served
Disconnect(c) ==
  /\ conns[c].pc \in {"query", "subscribe", "open"}
  /\ ~conns[c].closed
  /\ conns' = [conns EXCEPT ![c] = EmitClose([@ EXCEPT !.closed = TRUE])]
  /\ RouteFrame

\* channel.unsubscribe resolves in the 'close' listener
UnsubscribeReturns(c) ==
  /\ conns[c].closing = "unsubscribe"
  /\ conns' = [conns EXCEPT ![c].closing = "done",
                            ![c].subscribed = FALSE,
                            ![c].active = FALSE]
  /\ RouteFrame

\* messageHandler forwards a channel message, or the interval writes a
\* heartbeat
WriteRecord(c) ==
  /\ conns[c].subscribed \/ conns[c].heartbeat
  /\ conns[c].writes < MaxWrites
  /\ conns' = [conns EXCEPT ![c].writes = @ + 1]
  /\ RouteFrame

EndTracked(conn) ==
  IF conn.active
  THEN [conn EXCEPT !.heartbeat = FALSE, !.ended = TRUE, !.active = FALSE]
  ELSE conn

\* graceful shutdown
closeAllSSEConnections ==
  /\ \E c \in Conn : conns[c].active
  /\ conns' = [c \in Conn |-> EndTracked(conns[c])]
  /\ RouteFrame

\* ---------------------------------------------- the read loop of the hook
ReadFrame == UNCHANGED <<serverVars, sse, conns, prompt>>

\* buffer.split('\n\n') from position i on: acc holds the pieces closed by a
\* separator, cur the piece being read
RECURSIVE SplitFrom(_, _, _, _)
SplitFrom(text, i, cur, acc) ==
  IF i > Len(text) THEN [events |-> acc, tail |-> cur]
  ELSE IF i < Len(text) /\ text[i] = LF /\ text[i + 1] = LF
  THEN SplitFrom(text, i + 2, <<>>, Append(acc, cur))
  ELSE SplitFrom(text, i + 1, Append(cur, text[i]), acc)

\* events.pop() dropped: no tail is kept between reads
UnfinishedTail_Dropped(text) == <<>>

\* the complete events of the buffer
CompleteEvents(text) == SplitFrom(text, 1, <<>>, <<>>).events

\* buffer = events.pop() || ''
UnfinishedTail(text) == SplitFrom(text, 1, <<>>, <<>>).tail

\* String.prototype.trim, the line feed being the only white space
RECURSIVE Trim(_)
Trim(text) ==
  IF text = <<>> THEN text
  ELSE IF Head(text) = LF THEN Trim(Tail(text))
  ELSE IF text[Len(text)] = LF THEN Trim(SubSeq(text, 1, Len(text) - 1))
  ELSE text

\* the payload of an event, or NoPayload for an event that is skipped:
\* no 'data: ' prefix, empty data, or data JSON.parse rejects
Parse(event) ==
  IF event = <<>> \/ Head(event) # DataPrefix THEN NoPayload
  ELSE LET data == Trim(Tail(event))
       IN IF Len(data) = 1 /\ data[1].t = "json" THEN data[1].payload
          ELSE NoPayload

MapGet(map, k) == IF k \in DOMAIN map THEN map[k] ELSE <<>>
MapSet(map, k, v) == [x \in DOMAIN map \cup {k} |-> IF x = k THEN v ELSE map[x]]
MapDelete(map, k) == [x \in DOMAIN map \ {k} |-> map[x]]

\* the complete branch with newMap.delete left out
OnComplete_KeepEntry(r, payload) ==
  [r EXCEPT !.calls = Append(@, [fn |-> "onMessageComplete",
                                 id |-> payload.messageId,
                                 arg |-> MapGet(r.pendingMessages, payload.messageId)])]

OnDelta(r, payload) ==
  [r EXCEPT !.pendingMessages =
     MapSet(@, payload.messageId,
            MapGet(@, payload.messageId) \o payload.content)]

OnComplete(r, payload) ==
  [r EXCEPT !.calls = Append(@, [fn |-> "onMessageComplete",
                                 id |-> payload.messageId,
                                 arg |-> MapGet(r.pendingMessages, payload.messageId)]),
            !.pendingMessages = MapDelete(@, payload.messageId)]

OnPhaseComplete(r, payload) ==
  [r EXCEPT !.calls = Append(@, [fn |-> "onPhaseComplete",
                                 id |-> 0,
                                 arg |-> <<payload.phaseId>>])]

\* one event of the for loop
ProcessEvent(r, event) ==
  LET payload == Parse(event)
      r1 == IF payload = NoPayload THEN r
            ELSE [r EXCEPT !.processed = Append(@, payload)]
  IN CASE payload.type = "delta" -> OnDelta(r1, payload)
       [] payload.type = "complete" -> OnComplete(r1, payload)
       [] payload.type = "phase-complete" -> OnPhaseComplete(r1, payload)
       [] OTHER -> r1

RECURSIVE ProcessEvents(_, _)
ProcessEvents(r, events) ==
  IF events = <<>> THEN r
  ELSE ProcessEvents(ProcessEvent(r, Head(events)), Tail(events))

\* the route writes a record to the reply
Write(record) ==
  /\ Len(rx.sent) < MaxRecords
  /\ rx' = [rx EXCEPT !.wire = @ \o record, !.sent = Append(@, record)]
  /\ ReadFrame

\* reader.read() returns the next n pieces of the text as one chunk
Read(n) ==
  /\ n \in 1..Len(rx.wire)
  /\ LET chunk == SubSeq(rx.wire, 1, n)
         text == rx.buffer \o chunk
         r1 == [rx EXCEPT !.wire = SubSeq(@, n + 1, Len(@)),
                          !.seen = @ \o chunk,
                          !.buffer = UnfinishedTail(text)]
     IN rx' = ProcessEvents(r1, CompleteEvents(text))
  /\ ReadFrame

\* JSON.stringify(message.data): the history field is not part of the data
DataOf(msg) ==
  [type |-> msg.type, messageId |-> msg.messageId, content |-> msg.content,
   phaseId |-> msg.phaseId]

\* the channel hands the next message of invocation i to the subscribed
\* messageHandler, which writes it to the reply
Forward(i) ==
  /\ rx.connected
  /\ rx.cursor < Len(wf[i].published)
  /\ LET record == DataRecord(DataOf(wf[i].published[rx.cursor + 1]))
     IN rx' = [rx EXCEPT !.wire = @ \o record, !.sent = Append(@, record),
                         !.cursor = @ + 1]
  /\ ReadFrame

\* a message published while no handler is subscribed goes to nobody: the
\* channel is subscribed without rewind
Miss(i) ==
  /\ ~rx.connected
  /\ rx.cursor < Len(wf[i].published)
  /\ rx' = [rx EXCEPT !.cursor = @ + 1]
  /\ ReadFrame

\* the connection is lost: the 'close' listener unsubscribes, the text in
\* flight and the buffer of the read loop are gone, pendingMessages is state
\* of the hook and stays
StreamLost ==
  /\ rx.connected
  /\ rx.drops < MaxDrops
  /\ rx' = [rx EXCEPT !.connected = FALSE, !.wire = <<>>, !.buffer = <<>>,
                      !.drops = @ + 1]
  /\ ReadFrame

\* the hook connects again: the route subscribes a new handler, which gets
\* the messages published from now on
Reconnect(i) ==
  /\ ~rx.connected
  /\ rx.cursor = Len(wf[i].published)
  /\ rx' = [rx EXCEPT !.connected = TRUE]
  /\ ReadFrame

\* ------------------------------------------------ a call of the builder
BuildPrompt(plan) ==
  /\ prompt' = buildDrillSystemPrompt(plan)
  /\ UNCHANGED <<serverVars, sse, conns, rx>>

NextPrompt == \E plan \in PromptPlans : BuildPrompt(plan)

SpecPrompt == Init /\ [][NextPrompt]_vars

\* ========================================================= specifications
\* no invocation of the engine is running
Quiet == \A j \in Inv : wf[j].pc \in {"idle", "done", "failed"}

\* the steps of one invocation in which the model emits text only, at most
\* maxTok chunks of it
TextStep(i, maxTok) ==
  \/ LoadSessionAndTopic(i)
  \/ StoreUserMessage(i)
  \/ BuildPromptThrows(i)
  \/ \E t \in Tokens, flush \in BOOLEAN : TextDelta(i, t, flush, maxTok)
  \/ StreamEnd(i)
  \/ ReloadSessionData(i)
  \/ StoreAssistantMessages(i)

\* the steps around a markPhaseComplete call, at most maxCalls of them
ToolStep(i, maxCalls) ==
  \/ \E p \in ToolArgs : ToolCall(i, p, maxCalls)
  \/ Finalize(i)
  \/ ToolExecute(i)
  \/ ToolPublish(i)

\* invocations of the engine for the session overlap freely
NextOverlap ==
  \/ \E ph \in PlanChoices : GeneratePlan(ph)
  \/ StorePlanAndUpdateStatus
  \/ \E i \in Inv : StartInitialMessage(i)
  \/ \E i \in Inv, text \in UserTexts : SendMessage(i, text)
  \/ \E i \in Inv : TextStep(i, SysTokens)
  \/ \E i \in Inv : ToolStep(i, SysToolCalls)

SpecOverlap == Init /\ [][NextOverlap]_vars

\* the session's life: plan generation, messages, finishSession, summarization
NextLifecycle ==
  \/ \E ph \in PlanChoices : GeneratePlan(ph)
  \/ StorePlanAndUpdateStatus
  \/ \E i \in 1..SeqInv : StartInitialMessage(i)
  \/ \E i \in 1..SeqInv, text \in UserTexts : SendMessage(i, text)
  \/ FinishSession
  \/ StoreCompletionData
  \/ \E i \in Inv : TextStep(i, SysTokens)

SpecLifecycle == Init /\ [][NextLifecycle]_vars

\* a single invocation, the model call failing at any chunk
NextStream ==
  \/ \E ph \in PlanChoices : GeneratePlan(ph)
  \/ StorePlanAndUpdateStatus
  \/ StartInitialMessage(1)
  \/ \E text \in UserTexts : SendMessage(1, text)
  \/ TextStep(1, MaxTokens)
  \/ ToolStep(1, MaxToolCalls)
  \/ StreamFail(1)

SpecStream == Init /\ [][NextStream]_vars

\* a single invocation whose process may die inside a step that stores
NextRecovery ==
  \/ \E ph \in PlanChoices : GeneratePlan(ph)
  \/ StorePlanAndUpdateStatus
  \/ StartInitialMessage(1)
  \/ \E text \in UserTexts : SendMessage(1, text)
  \/ TextStep(1, MaxTokens)
  \/ ToolStep(1, MaxToolCalls)
  \/ StreamFail(1)
  \/ CrashInStoreUserMessage(1)
  \/ CrashInStoreAssistantMessages(1)

SpecRecovery == Init /\ [][NextRecovery]_vars

\* one invocation at a time, and the engine started again with an old input
NextRetrigger ==
  \/ \E ph \in PlanChoices : GeneratePlan(ph)
  \/ StorePlanAndUpdateStatus
  \/ \E i \in Inv : Quiet /\ StartInitialMessage(i)
  \/ \E i \in Inv, text \in UserTexts : Quiet /\ SendMessage(i, text)
  \/ \E i \in Inv : TextStep(i, SysTokens)
  \/ \E i \in Inv : StreamFail(i)
  \/ \E i \in Inv, j \in Inv : Quiet /\ Retrigger(i, j)
  \/ \E i \in Inv, cause \in LoadFailures : LoadFails(i, cause)

SpecRetrigger == Init /\ [][NextRetrigger]_vars

\* the steps of one invocation with every outcome a step has: it returns, or
\* it throws
EngineStep(i) ==
  \/ TextStep(i, MaxTokens)
  \/ ToolStep(i, MaxToolCalls)
  \/ StreamFail(i)
  \/ \E cause \in LoadFailures : LoadFails(i, cause)
  \/ DbError(i)

NextEngine ==
  \/ \E ph \in PlanChoices : GeneratePlan(ph)
  \/ StorePlanAndUpdateStatus
  \/ StartInitialMessage(1)
  \/ \E text \in UserTexts : SendMessage(1, text)
  \/ EngineStep(1)

\* every database call and every model stream attempt returns or errors
SpecEngine == Init /\ [][NextEngine]_vars /\ WF_vars(EngineStep(1))

\* the stream consumer of one client against any server and network
NextConsumer ==
  \/ \E a \in BagToSet(sse.attempts), code \in StatusCodes : FetchNotOk(a, code)
  \/ \E a \in BagToSet(sse.attempts) : FetchNoBody(a)
  \/ \E a \in BagToSet(sse.attempts), kind \in ThrownKinds : FetchThrows(a, kind)
  \/ \E a \in BagToSet(sse.attempts) : FetchOk(a)
  \/ \E a \in BagToSet(sse.attempts) : ReadDone(a)
  \/ \E a \in BagToSet(sse.attempts), kind \in ThrownKinds : ReadThrows(a, kind)
  \/ \E t \in BagToSet(sse.timers) : TimerFires(t)
  \/ AppBackground
  \/ AppActive
  \/ handleManualRetry
  \/ EffectRerun
  \/ Unmount

SpecConsumer == Init /\ [][NextConsumer]_vars

\* the event stream route serving requests of clients that come and go
NextRoute ==
  \/ \E c \in Conn, code \in {0, 400, 401} : Request(c, code)
  \/ \E c \in Conn, found \in BOOLEAN : QueryReturns(c, found)
  \/ \E c \in Conn : SubscribeReturns(c)
  \/ \E c \in Conn : Disconnect(c)
  \/ \E c \in Conn : UnsubscribeReturns(c)
  \/ \E c \in Conn : WriteRecord(c)
  \/ closeAllSSEConnections

\* the read loop of one stream, the route writing records at any time
NextRead ==
  \/ \E payload \in Payloads : Write(DataRecord(payload))
  \/ Write(HeartbeatRecord)
  \/ \E n \in 1..(4 * MaxRecords) : Read(n)

SpecRead == Init /\ [][NextRead]_vars

\* one invocation whose attempt does not fail, streamed to a client whose
\* connection comes and goes
NextDelivery ==
  \/ \E ph \in PlanChoices : GeneratePlan(ph)
  \/ StorePlanAndUpdateStatus
  \/ StartInitialMessage(1)
  \/ \E text \in UserTexts : SendMessage(1, text)
  \/ TextStep(1, SysTokens)
  \/ ToolStep(1, DeliveryToolCalls)
  \/ Forward(1)
  \/ Miss(1)
  \/ StreamLost
  \/ Reconnect(1)
  \/ \E n \in 1..(4 * MaxRecords) : Read(n)

SpecDelivery == Init /\ [][NextDelivery]_vars

\* every call the handler awaits returns, and every event is delivered
SpecRoute == Init /\ [][NextRoute]_vars /\ WF_vars(NextRoute)


\* ================================================================ claims
IsPrefix(s, t) == Len(s) <= Len(t) /\ SubSeq(t, 1, Len(s)) = s

IsUserEvent(e) == e.eventType = "chat-message" /\ e.role = "user"
IsAssistantEvent(e) == e.eventType = "chat-message" /\ e.role = "assistant"

\* storeUserMessageStep of invocation i runs in this step
RecordsUserTurn(i) == wf[i].pc = "storeUser" /\ wf'[i].pc = "stream"

\* C1: recording the user turn for a messageId that is already the id of a
\* ChatEvent in the log leaves the log unchanged, and the log never holds two
\* ChatEvents with the same id.
C1_IdempotentUserTurn ==
  [][/\ \A i \in Inv :
          (/\ RecordsUserTurn(i)
           /\ \E e \in Range(chatEvents) : e.id = wf[i].messageId)
          => chatEvents' = chatEvents
     /\ \A k, l \in 1..Len(chatEvents') :
          chatEvents'[k].id = chatEvents'[l].id => k = l]_vars

\* C2: once the persisted planProgress shows a phase complete, every later
\* read of the persisted plan shows it complete, overlapping invocations
\* included.
C2_ProgressMonotone ==
  [][\A p \in DOMAIN drillPlan.planProgress :
       drillPlan.planProgress[p] = "complete"
       => /\ p \in DOMAIN drillPlan'.planProgress
          /\ drillPlan'.planProgress[p] = "complete"]_vars

\* C3: the persisted chatEvents log only grows by appending: the log before
\* any write is a prefix of the log after it, overlapping invocations and
\* tool-call writes included.
C3_LogAppendOnly == [][IsPrefix(chatEvents, chatEvents')]_vars

\* C5: status only moves forward along preparing, ready, chat-completed,
\* completed, whatever the order of the plan store, finishSession and the
\* summarization store.
C5_StatusForward == [][StatusRank(status') >= StatusRank(status)]_vars

\* C10: when sendMessage on a ready session returns its messageId, the
\* persisted log already holds a user chat-message with that id.
C10_UserEventOnReturn ==
  [][\A i \in Inv :
       (/\ status = "ready"
        /\ wf[i].pc = "idle" /\ wf'[i].pc = "load" /\ wf'[i].hasUser
        /\ ~wf'[i].retrigger)
       => \E e \in Range(chatEvents') :
            IsUserEvent(e) /\ e.id = wf'[i].messageId]_vars

\* the logical turns of the log: its chat-messages
LogTurns(log) ==
  LET m == SelectSeq(log, LAMBDA e : e.eventType = "chat-message")
  IN [k \in 1..Len(m) |-> [role |-> m[k].role, content |-> m[k].content]]

\* the logical turns of the transcript: its user entries and the assistant
\* entries that carry text
TranscriptTurns(ms) ==
  LET m == SelectSeq(ms, LAMBDA e : e.role \in {"user", "assistant"}
                                    /\ NonWs(e.content))
  IN [k \in 1..Len(m) |-> [role |-> m[k].role, content |-> m[k].content]]

\* C6: after any sequence of invocations, ones ending in failure after the
\* user turn was recorded included, chatEvents and aiSdkMessages hold the same
\* logical turns in the same order.
C6_LogMatchesTranscript ==
  Quiet => LogTurns(chatEvents) = TranscriptTurns(aiSdkMessages)

\* the streaming attempt of an invocation has returned its result
Returned(w) == w.pc \in {"reload", "storeAsst", "done"}

\* the chunk sequence of an attempt cut at its message boundaries: segs are the
\* texts closed at a boundary, rest the text after the last one
RECURSIVE SegWalk(_, _, _)
SegWalk(sc, acc, out) ==
  IF sc = <<>> THEN [segs |-> out, rest |-> acc]
  ELSE IF Head(sc).k = "text"
         THEN SegWalk(Tail(sc), Append(acc, Head(sc).v), out)
         ELSE IF NonWs(acc) THEN SegWalk(Tail(sc), <<>>, Append(out, acc))
                            ELSE SegWalk(Tail(sc), acc, out)

\* the text generated under each message id of an attempt, in order
SegTexts(sc) ==
  LET r == SegWalk(sc, <<>>, <<>>) IN Append(r.segs, r.rest)

\* the segments of a returned attempt that became messages
FinalSegments(sc) == SelectSeq(SegTexts(sc), NonWs)

RECURSIVE DeltaText(_, _)
DeltaText(pub, m) ==
  IF pub = <<>> THEN <<>>
  ELSE (IF Head(pub).type = "delta" /\ Head(pub).messageId = m
          THEN Head(pub).content ELSE <<>>)
       \o DeltaText(Tail(pub), m)

Deltas(pub, m) ==
  {k \in 1..Len(pub) : pub[k].type = "delta" /\ pub[k].messageId = m}

Completes(pub, m) ==
  {k \in 1..Len(pub) : pub[k].type = "complete" /\ pub[k].messageId = m}

\* the deltas for id m are closed by exactly one complete event
Terminated(pub, m) ==
  /\ Cardinality(Completes(pub, m)) = 1
  /\ \A d \in Deltas(pub, m), c \in Completes(pub, m) : d < c

\* C7: for every streaming attempt and every message id it generated text
\* under, the deltas for the id concatenate, in publish order, to that text
\* and are closed by exactly one complete event for the id, with no delta for
\* the id after it.
C7_DeltasThenOneComplete ==
  \A i \in Inv :
    Returned(wf[i]) =>
      \A n \in 1..Len(wf[i].segIds) :
        SegTexts(wf[i].script)[n] # <<>> =>
          /\ DeltaText(wf[i].published, wf[i].segIds[n])
               = SegTexts(wf[i].script)[n]
          /\ Terminated(wf[i].published, wf[i].segIds[n])

RECURSIVE TextRun(_)
TextRun(sc) ==
  IF sc = <<>> \/ Head(sc).k = "tool" THEN <<>>
  ELSE <<Head(sc).v>> \o TextRun(Tail(sc))

ToolIndexes(sc) == {j \in 1..Len(sc) : sc[j].k = "tool"}

\* the tool call at chunk j split the response: the pending text pre became
\* message n, closed by its own complete event, and, when the text after the
\* call counts, it became message n + 1 under an id of its own
SplitAt(w, j, n, pre, postCounts(_)) ==
  LET am == w.assistantMessages
      post == TextRun(SubSeq(w.script, j + 1, Len(w.script)))
  IN /\ n <= Len(am)
     /\ am[n].content = pre
     /\ Terminated(w.published, am[n].id)
     /\ postCounts(post) =>
          /\ n + 1 <= Len(am)
          /\ am[n + 1].content = post
          /\ \A q \in 1..n : am[q].id # am[n + 1].id
          /\ Terminated(w.published, am[n + 1].id)

\* storeAssistantMessagesStep appended the messages in generation order
PersistedInOrder(w) ==
  w.pc = "done" =>
    SelectSeq(chatEvents, IsAssistantEvent) = AssistantEvents(w.assistantMessages)

NonEmpty(t) == t # <<>>

C11_PlainReply ==
  \A i \in Inv :
    (/\ wf[i].pc = "done" /\ wf[i].hasUser /\ wf[i].sentStatus = "ready"
     /\ wf[i].attempt = 1
     /\ wf[i].script # <<>> /\ ToolIndexes(wf[i].script) = {})
    => LET m == wf[i].initialMessageId
           gained == SubSeq(wf[i].latest.chatEvents,
                            Len(wf[i].sessionData.chatEvents) + 1,
                            Len(wf[i].latest.chatEvents))
       IN /\ Deltas(wf[i].published, m) # {}
          /\ Terminated(wf[i].published, m)
          /\ \A k \in 1..Len(wf[i].published) :
               wf[i].published[k].messageId = m
          /\ m # wf[i].messageId
          /\ Len(gained) = 1
          /\ IsAssistantEvent(gained[1]) /\ gained[1].id = m

\* C12: the plan generator stores a plan with at least one phase, every phase
\* incomplete, together with status ready, and only afterwards starts the
\* engine with userMessage null; that invocation records no user turn, so once
\* it has persisted its reply the first ChatEvent of the log is an assistant
\* chat-message.
C12_InitialMessage ==
  [][/\ (genPc = "store" /\ genPc' = "start")
        => /\ status' = "ready"
           /\ Len(drillPlan'.phases) >= 1
           /\ \A p \in Range(drillPlan'.phases) :
                drillPlan'.planProgress[p] = "incomplete"
     /\ \A i \in Inv :
          /\ (wf[i].pc = "idle" /\ wf'[i].pc = "load" /\ ~wf'[i].hasUser)
             => drillPlan.isSet /\ status = "ready"
          /\ (~wf[i].hasUser /\ wf[i].pc = "load") => wf'[i].pc # "storeUser"
          /\ (~wf'[i].hasUser /\ wf'[i].pc = "done")
             => /\ chatEvents' # <<>>
                /\ IsAssistantEvent(chatEvents'[1])]_vars

ErrorKinds(e) ==
  CASE e = "Learning topic not found" -> {"not-found"}
    [] e = "Drill session not found or access denied"
         -> {"not-found", "access-denied"}
    [] OTHER -> {}

\* a failure of step 1 is permanent and leaves the session as it was: no
\* retry, no ChatEvent, no broadcast, no write
LoadFailureIsClean(i) ==
  /\ (wf[i].pc = "load" /\ wf'[i].err # "-")
     => /\ wf'[i].pc = "failed"
        /\ wf'[i].attempt = 0
        /\ wf'[i].published = <<>>
        /\ UNCHANGED <<status, drillPlan, chatEvents, aiSdkMessages,
                       completionData>>
  /\ wf[i].err # "-" => wf'[i] = wf[i]

BackoffDelays ==
  <<1000, 2000, 4000, 8000, 16000, 30000, 30000, 30000, 30000, 30000>>

\* every pending timer is one of the ten retries and waits its delay
TimersFollowBackoff ==
  \A t \in BagToSet(sse.timers) :
    /\ t.count < Len(BackoffDelays)
    /\ t.delay = BackoffDelays[t.count + 1]

\* the consumer shows an error and has nothing under way
Halted ==
  /\ sse.connectionError # "none"
  /\ ~sse.isReconnecting
  /\ sse.timers = EmptyBag
  /\ ~BagIn(FetchingAttempt, sse.attempts)
  /\ ~sse.rerunPending

\* C15: while no connection attempt has succeeded, the k-th retry waits
\* min(1000 * 2^(k-1), 30000) ms, the retry counter never passes 10, and once
\* the consumer has given up it shows connectionError, is not reconnecting and
\* attempts nothing more until handleManualRetry is called
C15_BackoffThenStop ==
  sse.nopen = 0 =>
    /\ TimersFollowBackoff
    /\ sse.retryCount <= 10
    /\ sse.stopped # "no" => Halted


TerminalStatuses == {400, 401, 403, 404}

\* C16: a response with status 400, 401, 403 or 404 sets connectionError and
\* clears the reconnecting indicator (state a mounted hook has) and schedules
\* no timer: the pending timers are those there were, and the call that
\* failed is over
C16_TerminalStatus ==
  [][\A a \in BagToSet(sse.attempts), code \in TerminalStatuses :
       FetchNotOk(a, code) =>
         /\ sse.mounted =>
              sse'.connectionError \in {"Authentication error", "Error status"}
         /\ ~sse'.isReconnecting
         /\ sse'.timers = sse.timers
         /\ sse'.attempts = sse.attempts (-) SetToBag({a})
         /\ sse'.retryCount = sse.retryCount
         /\ ~sse'.rerunPending \/ sse.rerunPending]_vars

C16_Witness ==
  /\ sse.connectionError = "Authentication error"
  /\ sse.timers = EmptyBag
  /\ sse.attempts = EmptyBag
  /\ sse.nopen = 0

\* a timer was set in the step and no terminal error
ReconnectScheduled ==
  /\ Referenced(sse'.timers) # {}
  /\ sse'.timers # sse.timers
  /\ sse'.connectionError = sse.connectionError

\* the effect run of the call is live, retries remain, and neither the
\* foreground handler nor a re-run of the effect is about to reconnect
RetriesRemain(a) ==
  /\ ~a.stale
  /\ sse.retryCount < 10
  /\ ~sse.reconnectOnForeground
  /\ ~sse.rerunPending

\* C17: while retries remain, a status other than 400/401/403/404, an error
\* thrown while fetching the token or opening the connection, a response
\* without a body, a read error and a close of the stream the consumer did
\* not ask for each schedule a reconnect and set no terminal error
C17_OthersReconnect ==
  [][\A a \in BagToSet(sse.attempts) :
       /\ RetriesRemain(a)
       /\ \/ \E code \in StatusCodes \ TerminalStatuses : FetchNotOk(a, code)
          \/ FetchNoBody(a)
          \/ \E kind \in ThrownKinds : FetchThrows(a, kind)
          \/ \E kind \in ThrownKinds : ReadThrows(a, kind)
          \/ sse.stream = "open" /\ ReadDone(a)
       => ReconnectScheduled]_vars

\* the timers set in the step
NewTimers ==
  {t \in BagToSet(sse'.timers) : CopiesIn(t, sse'.timers) > CopiesIn(t, sse.timers)}

\* C18: a successful connection attempt sets the retry counter to 0, and when
\* the stream it opened fails later the backoff starts again: the retry is
\* the first of ten and waits 1000 ms
C18_SuccessResetsBackoff ==
  [][\A a \in BagToSet(sse.attempts) :
       /\ FetchOk(a) => sse'.retryCount = 0
       /\ (\E kind \in ThrownKinds : ReadThrows(a, kind)) =>
            \A t \in NewTimers : t.count = 0 /\ t.delay = 1000]_vars

\* a read loop of the live effect run is reading an open stream
StreamIsOpen == sse.stream = "open" /\ BagIn(ReadingAttempt, sse.attempts)

\* C19: when the app leaves the foreground while a stream is open, the reader
\* is cancelled in that step, no backoff timer stays pending and the
\* reconnect-on-foreground flag is set; when the app becomes active with the
\* flag set, the flag is cleared, the retry counter is 0 and the effect is
\* due to run again, which starts a connection attempt and sets no timer
C19_BackgroundForeground ==
  [][/\ (AppBackground /\ StreamIsOpen) =>
            /\ sse'.stream = "cancelled"
            /\ sse'.timers = EmptyBag
            /\ sse'.reconnectOnForeground
     /\ (AppActive /\ sse.reconnectOnForeground) =>
            /\ ~sse'.reconnectOnForeground
            /\ sse'.retryCount = 0
            /\ sse'.rerunPending
     /\ EffectRerun =>
            /\ BagIn(FetchingAttempt, sse'.attempts)
            /\ sse'.timers = EmptyBag
            /\ sse'.retryCount = 0]_vars

\* C20: handleManualRetry, in any state, leaves no backoff timer pending,
\* sets the retry counter to 0, clears connectionError and makes the effect
\* run again, which starts a connection attempt and sets no timer
C20_ManualRetry ==
  [][/\ handleManualRetry =>
            /\ sse'.timers = EmptyBag
            /\ sse'.retryCount = 0
            /\ sse'.connectionError = "none"
            /\ sse'.rerunPending
     /\ EffectRerun =>
            /\ BagIn(FetchingAttempt, sse'.attempts)
            /\ sse'.timers = EmptyBag
            /\ sse'.retryCount = 0
            /\ sse'.connectionError = "none"]_vars

\* C21: once the component is unmounted no reader is open, no timer is
\* pending, no connection call of the hook sets an error, and no call starts
C21_UnmountedIsQuiet ==
  [][~sse'.mounted =>
       /\ sse'.conn.reader = "none"
       /\ sse'.stream # "open"
       /\ sse'.timers = EmptyBag
       /\ ~BagIn(FetchingAttempt, sse'.attempts)
       /\ ~sse.mounted => sse'.connectionError = sse.connectionError]_vars

Released(c) ==
  ~conns[c].subscribed /\ ~conns[c].heartbeat /\ ~conns[c].active

\* C22: whenever the client of a request has disconnected, the connection
\* eventually has no channel subscription, no heartbeat timer and no entry
\* in activeConnections
C22_DisconnectReleases ==
  \A c \in Conn : conns[c].closed ~> [](Released(c))

\* the payloads of the data records among the first records of `records`
\* that end within the first n pieces of the text
RECURSIVE ArrivedPayloads(_, _)
ArrivedPayloads(records, n) ==
  IF records = <<>> \/ Len(Head(records)) > n THEN <<>>
  ELSE LET record == Head(records)
           rest == ArrivedPayloads(Tail(records), n - Len(record))
       IN IF record = HeartbeatRecord THEN rest ELSE <<record[2].payload>> \o rest

\* the read loop run on the whole text in one read
Unsplit(text) == ProcessEvents(FreshReader, CompleteEvents(text))

\* C23: however the text was split into reads, the payloads processed and
\* the callbacks made are those of one read of the whole text; they are the
\* payloads of the data records whose blank line has arrived, heartbeats
\* giving none; and the buffer holds the text after the last blank line
C23_SplitInvariant ==
  /\ rx.processed = Unsplit(rx.seen).processed
  /\ rx.calls = Unsplit(rx.seen).calls
  /\ rx.pendingMessages = Unsplit(rx.seen).pendingMessages
  /\ rx.processed = ArrivedPayloads(rx.sent, Len(rx.seen))
  /\ rx.buffer = SubSeq(rx.seen, Len(rx.seen) - Len(rx.buffer) + 1, Len(rx.seen))
  /\ \A k \in 1..Len(rx.buffer) - 1 : ~(rx.buffer[k] = LF /\ rx.buffer[k + 1] = LF)

\* a heartbeat and two data records were read in pieces, and the start of a
\* third record waits in the buffer
C23_Witness ==
  /\ Len(rx.sent) = 3
  /\ rx.sent[1] = HeartbeatRecord
  /\ Len(rx.processed) = 1
  /\ rx.buffer = <<DataPrefix>>
  /\ rx.wire # <<>>

\* the index of the last complete record for m before position k, 0 if none
LastComplete(p, m, k) ==
  LET S == {j \in 1..(k - 1) : p[j].type = "complete" /\ p[j].messageId = m}
  IN IF S = {} THEN 0 ELSE CHOOSE j \in S : \A x \in S : x <= j

\* the contents of the delta records for m at positions from..to, in order
RECURSIVE DeltaContents(_, _, _, _)
DeltaContents(p, m, from, to) ==
  IF from > to THEN <<>>
  ELSE (IF p[from].type = "delta" /\ p[from].messageId = m
          THEN p[from].content ELSE <<>>)
       \o DeltaContents(p, m, from + 1, to)

\* the text of m in flight before position k
InFlightText(p, m, k) == DeltaContents(p, m, LastComplete(p, m, k) + 1, k - 1)

\* the callbacks the records p[1..k] ask for
RECURSIVE ExpectedCalls(_, _)
ExpectedCalls(p, k) ==
  IF k = 0 THEN <<>>
  ELSE ExpectedCalls(p, k - 1) \o
       (CASE p[k].type = "complete" ->
               <<[fn |-> "onMessageComplete", id |-> p[k].messageId,
                  arg |-> InFlightText(p, p[k].messageId, k)]>>
          [] p[k].type = "phase-complete" ->
               <<[fn |-> "onPhaseComplete", id |-> 0, arg |-> <<p[k].phaseId>>]>>
          [] OTHER -> <<>>)

\* the ids with a delta record after their last complete record
InFlightIds(p) ==
  {m \in MessageIds :
     \E j \in (LastComplete(p, m, Len(p) + 1) + 1)..Len(p) :
        p[j].type = "delta" /\ p[j].messageId = m}

\* C24: the in-flight map holds, for exactly the ids with a delta since their
\* last complete record, the contents of those deltas in order; each complete
\* record gave one onMessageComplete(messageId, text in flight) and removed
\* the id; each phase-complete record gave one onPhaseComplete(phaseId) and
\* changed no entry; nothing else was called
C24_DispatchByType ==
  /\ DOMAIN rx.pendingMessages = InFlightIds(rx.processed)
  /\ \A m \in DOMAIN rx.pendingMessages :
       rx.pendingMessages[m] = InFlightText(rx.processed, m, Len(rx.processed) + 1)
  /\ rx.calls = ExpectedCalls(rx.processed, Len(rx.processed))

\* two deltas for one message, then its complete record: the callback got
\* both contents and the entry is gone
C24_Witness ==
  /\ rx.processed = <<DeltaPayload(1, <<"a">>), DeltaPayload(1, <<"b">>),
                      CompletePayload(1)>>
  /\ rx.calls = <<[fn |-> "onMessageComplete", id |-> 1, arg |-> <<"a", "b">>]>>
  /\ rx.pendingMessages = <<>>

\* the positions of the lines the builder marked as current
MarkedCurrent == {k \in 1..Len(prompt.phasesWithStatus) :
                    prompt.phasesWithStatus[k].isCurrent}

\* the first position of the plan whose status is not complete, as a set
FirstNotComplete(plan) ==
  {k \in 1..Len(plan.phases) :
     /\ ProgressStatus(plan, plan.phases[k]) # "complete"
     /\ \A j \in 1..(k - 1) : ProgressStatus(plan, plan.phases[j]) = "complete"}

\* C25: for every plan and progress map the builder marks exactly the first
\* phase in list order whose status is not complete, and no phase when all
\* are complete
C25_ExactlyOneCurrent ==
  (prompt.called /\ ~prompt.threw) => MarkedCurrent = FirstNotComplete(prompt.plan)

\* the same for the plans whose phase ids are pairwise distinct
C25_DistinctIds ==
  (/\ prompt.called /\ ~prompt.threw
   /\ \A j, k \in 1..Len(prompt.plan.phases) :
         prompt.plan.phases[j] = prompt.plan.phases[k] => j = k)
    => MarkedCurrent = FirstNotComplete(prompt.plan)

\* a plan of two distinct phases, the first complete: the second is marked
C25_DistinctIdsWitness ==
  /\ prompt.called
  /\ prompt.plan.phases = <<"p1", "p2">>
  /\ ProgressStatus(prompt.plan, "p1") = "complete"
  /\ MarkedCurrent = {2}

\* the plan the invocation loaded is absent or has no phase
PlanFree(plan) == ~plan.isSet \/ plan.phases = <<>>

\* C26: an invocation whose session has no drill plan, absent or without
\* phases, reaches the Streaming step and building its system prompt does
\* not fail
C26_FailSoftPrompt ==
  \A i \in Inv :
    (wf[i].pc = "stream" /\ PlanFree(wf[i].drillPlan))
      => ~buildDrillSystemPrompt(wf[i].drillPlan).threw

\* the part that holds: a stored plan without phases gives a prompt, with an
\* empty phase list and the instruction for a finished plan
C26_EmptyPlanBuilds ==
  \A i \in Inv :
    (wf[i].pc = "stream" /\ wf[i].drillPlan.isSet /\ wf[i].drillPlan.phases = <<>>)
      => /\ HasPrompt(wf[i])
         /\ buildDrillSystemPrompt(wf[i].drillPlan).currentPhaseInstruction
              = "All phases are complete"

\* C27: completionData is written at most once: once it is set, no step
\* changes it
C27_CompletionDataOnce ==
  [][completionData # 0 => completionData' = completionData]_vars

\* the steps of processDrillMessageWorkflowFunction by the names of the
\* engine's states
EngineState(pc) ==
  CASE pc = "load" -> "LoadingContext"
    [] pc = "storeUser" -> "RecordingUserTurn"
    [] pc = "stream" -> "Streaming"
    [] pc = "reload" -> "Reconciling"
    [] pc = "storeAsst" -> "Persisting"
    [] pc = "done" -> "Done"
    [] pc = "failed" -> "Failed"
    [] OTHER -> "-"

\* the step that follows a step that returned
NextInOrder(w, a, b) ==
  \/ a = "-" /\ b = "LoadingContext"
  \/ a = "LoadingContext" /\ b = (IF w.hasUser THEN "RecordingUserTurn" ELSE "Streaming")
  \/ a = "RecordingUserTurn" /\ b = "Streaming"
  \/ a = "Streaming" /\ b = "Reconciling"
  \/ a = "Reconciling" /\ b = "Persisting"
  \/ a = "Persisting" /\ b = "Done"

\* C28 as stated: the steps run in order, RecordingUserTurn only with a user
\* message, and Failed is entered only from Streaming or Persisting
C28_FailedOnlyFromStreamingOrPersisting ==
  [][\A i \in Inv :
       LET a == EngineState(wf[i].pc)
           b == EngineState(wf'[i].pc)
       IN a # b =>
            \/ NextInOrder(wf'[i], a, b)
            \/ a \in {"Streaming", "Persisting"} /\ b = "Failed"]_vars

\* C28: the steps run in order, RecordingUserTurn only with a user message,
\* Done and Failed are left by no step, and Failed is entered from the step
\* that threw, which can be any of the five
C28_StepOrder ==
  [][\A i \in Inv :
       LET a == EngineState(wf[i].pc)
           b == EngineState(wf'[i].pc)
       IN a # b =>
            \/ NextInOrder(wf'[i], a, b)
            \/ /\ a \in {"LoadingContext", "RecordingUserTurn", "Streaming",
                         "Reconciling", "Persisting"}
               /\ b = "Failed"]_vars

\* an invocation with a user message went through all five steps after an
\* attempt of Streaming that threw
C28_Witness ==
  /\ wf[1].pc = "done" /\ wf[1].hasUser /\ wf[1].attempt = 2
  /\ wf[1].assistantMessages # <<>>

\* an invocation failed in LoadingContext
C28_FailedInLoading == wf[1].pc = "failed" /\ wf[1].attempt = 0

\* C29: every invocation that started reaches Done or Failed, each step and
\* each stream attempt returning or throwing; Streaming is attempted at most
\* 3 times and the model takes at most 2 rounds in an attempt
C29_Terminates ==
  /\ [](\A i \in Inv : wf[i].attempt <= StreamMaxAttempts /\ wf[i].round <= MaxSteps)
  /\ \A i \in 1..SeqInv : (wf[i].pc # "idle") ~> (wf[i].pc \in {"done", "failed"})

\* an invocation is done whose third attempt of Streaming was stopped at the
\* end of the model's second round
C29_Witness ==
  /\ wf[1].pc = "done" /\ wf[1].attempt = StreamMaxAttempts
  /\ wf[1].round = MaxSteps /\ wf[1].ended

\* the writes markPhaseComplete persisted in the last attempt of invocation i
\* are in the stored session
ToolWritesStored(i) ==
  \A k \in 1..Len(wf[i].fx) :
    wf[i].fx[k].persisted =>
      /\ wf[i].fx[k].phaseId \in DOMAIN drillPlan.planProgress
      /\ drillPlan.planProgress[wf[i].fx[k].phaseId] = "complete"
      /\ \E e \in Range(chatEvents) :
            e.eventType = "phase-complete" /\ e.phaseId = wf[i].fx[k].phaseId

\* C30: with one invocation and no other writer, the write of Persisting
\* keeps every stored ChatEvent, the phase-complete events of the tool among
\* them, and leaves the plan alone: it extends the sessionData re-read in
\* Reconciling; and after it the tool's writes are still stored
C30_PersistingKeepsToolWrites ==
  /\ [][\A i \in Inv :
          StoreAssistantMessages(i) =>
            /\ wf[i].latest.chatEvents = chatEvents
            /\ IsPrefix(chatEvents, chatEvents')
            /\ IsPrefix(aiSdkMessages, aiSdkMessages')
            /\ drillPlan' = drillPlan]_vars
  /\ [](\A i \in Inv : wf[i].pc \in {"reload", "storeAsst", "done"} => ToolWritesStored(i))

\* Persisting wrote a reply after a phase-complete event that the tool had
\* stored during Streaming
C30_Witness ==
  /\ wf[1].pc = "done"
  /\ wf[1].fx # <<>> /\ wf[1].fx[1].persisted
  /\ wf[1].assistantMessages # <<>>
  /\ \E k \in 1..Len(chatEvents) :
        /\ chatEvents[k].eventType = "phase-complete"
        /\ k < Len(chatEvents)

\* the readers that are open: the one of the current effect run, and one a
\* cleaned-up run obtained and stored in connectionRef
OpenReaders ==
  (IF sse.stream = "open" THEN 1 ELSE 0)
    + (IF sse.conn.reader = "stale" THEN 1 ELSE 0)

\* C31: a mounted consumer has at most one open stream reader and at most
\* one pending backoff timer; a read error on the open stream leaves one
\* timer, not two
C31_OneReaderOneTimer ==
  sse.mounted => OpenReaders <= 1 /\ BagCardinality(sse.timers) <= 1

\* the part about the reader alone
C31_OneReader == sse.mounted => OpenReaders <= 1

\* the consumer is at work on its connection: a connectToStream call is
\* awaiting the token or the response or is reading, a backoff timer is
\* pending, or the effect is about to run again
Connecting ==
  \/ sse.attempts # EmptyBag
  \/ sse.timers # EmptyBag
  \/ sse.rerunPending

\* C32: mounted, in foreground and with no connectionError, the consumer is
\* fetching, reading or waiting on a backoff timer, also after a read
\* returned done because the server ended the stream
C32_NeverIdle ==
  (sse.mounted /\ sse.appState = "active" /\ sse.connectionError = "none")
    => Connecting

\* the case of the server ending the stream: after the read that returned
\* done the consumer is at work again
C32_ReconnectsAfterDone ==
  [][\A a \in BagToSet(sse.attempts) :
       (/\ ReadDone(a) /\ sse.stream = "open"
        /\ sse'.mounted /\ sse'.appState = "active"
        /\ sse'.connectionError = "none")
         => sse'.attempts # EmptyBag \/ sse'.timers # EmptyBag
            \/ sse'.rerunPending]_vars

\* C33: while the app is in background or inactive the consumer holds no
\* open stream reader and no pending backoff timer, also when the app went
\* to background during a connection attempt
C33_BackgroundIsQuiet ==
  (sse.mounted /\ sse.appState = "background")
    => /\ OpenReaders = 0
       /\ sse.conn.reader = "none"
       /\ sse.timers = EmptyBag

\* the part about the reader alone
C33_NoReaderInBackground ==
  (sse.mounted /\ sse.appState = "background") => OpenReaders = 0

\* the consumer stopped on an error: a terminal status on open, or the
\* retries exhausted, and nothing of it is still running
StoppedOnError ==
  /\ sse.mounted
  /\ sse.connectionError \in {"Authentication error", "Error status",
                              "Connection lost"}
  /\ sse.attempts = EmptyBag /\ sse.timers = EmptyBag /\ ~sse.rerunPending

\* C34: once stopped on a terminal error or on exhausted retries, no step
\* but handleManualRetry starts a connection attempt, sets a timer, asks for
\* the effect to run again or clears the error, whatever the app-state
\* transitions
C34_StoppedUntilManualRetry ==
  [][(StoppedOnError /\ sse'.mounted /\ ~handleManualRetry)
       => /\ sse'.attempts = EmptyBag
          /\ sse'.timers = EmptyBag
          /\ ~sse'.rerunPending
          /\ sse'.connectionError = sse.connectionError]_vars

\* the fields of the current attempt that a superseded attempt must leave
\* alone
CurrentAttemptFields(s) ==
  <<s.retryCount, s.conn, s.reconnectOnForeground, s.isReconnecting,
    s.connectionError>>

\* a step by which the superseded attempt a comes back from its token fetch
\* or HTTP open
StaleReturn(a) ==
  /\ a.stale
  /\ \/ FetchOk(a)
     \/ FetchNoBody(a)
     \/ \E code \in StatusCodes : FetchNotOk(a, code)
     \/ \E kind \in ThrownKinds : FetchThrows(a, kind)

\* C35: while the hook is mounted, a superseded attempt whose token fetch or
\* HTTP open returns changes
\* neither the retry counter, the shared connection record, the
\* reconnect-on-foreground flag nor the reconnecting and error indicators
C35_StaleAttemptIsInert ==
  [][\A a \in BagToSet(sse.attempts) :
       (sse.mounted /\ StaleReturn(a))
         => CurrentAttemptFields(sse') = CurrentAttemptFields(sse)]_vars

\* the persisted assistant chat-messages with id m
PersistedAssistant(m) ==
  {e \in Range(chatEvents) :
     e.eventType = "chat-message" /\ e.role = "assistant" /\ e.id = m}

\* C36: once the invocation is Done, the content of every onMessageComplete
\* call of the client equals the content of the persisted assistant
\* chat-message with the same id, whatever disconnects and reconnects
\* happened during streaming
C36_ClientContentIsPersisted ==
  wf[1].pc = "done" =>
    \A k \in 1..Len(rx.calls) :
      rx.calls[k].fn = "onMessageComplete" =>
        \E e \in PersistedAssistant(rx.calls[k].id) :
          e.content = rx.calls[k].arg

\* C36, without a lost connection: the same property for a client that stayed
\* connected
C36_ConnectedClientContent ==
  (wf[1].pc = "done" /\ rx.drops = 0) =>
    \A k \in 1..Len(rx.calls) :
      rx.calls[k].fn = "onMessageComplete" =>
        \E e \in PersistedAssistant(rx.calls[k].id) :
          e.content = rx.calls[k].arg

\* C37: whenever the drill plan is set, the keys of planProgress are the ids
\* of the phases, for every phaseId the model passes to markPhaseComplete
C37_ProgressKeysArePhaseIds ==
  drillPlan.isSet => DOMAIN drillPlan.planProgress = Range(drillPlan.phases)

\* C37, second part: the phases list is never changed once it is stored
C37_PhasesNeverChange ==
  [][drillPlan.isSet => /\ drillPlan'.isSet
                        /\ drillPlan'.phases = drillPlan.phases]_vars

IsPhaseComplete(e) == e.eventType = "phase-complete"
IsAssistantMessage(e) == e.eventType = "chat-message" /\ e.role = "assistant"

\* C38: in the persisted log of one invocation every phase-complete event
\* stands before every assistant chat-message, the pre-tool segment included
C38_PhaseEventsBeforeAssistant ==
  \A a, b \in 1..Len(chatEvents) :
    (IsPhaseComplete(chatEvents[a]) /\ IsAssistantMessage(chatEvents[b]))
      => a < b

\* the invocation is Done with a segment before the tool call and one after
\* it persisted, the complete event of the first segment broadcast before
\* the phase-complete event
C38_Witness ==
  /\ wf[1].pc = "done"
  /\ \E a \in 1..Len(chatEvents) : IsPhaseComplete(chatEvents[a])
  /\ Cardinality({b \in 1..Len(chatEvents) :
                    IsAssistantMessage(chatEvents[b])}) >= 2
  /\ \E k, l \in 1..Len(wf[1].published) :
       /\ k < l
       /\ wf[1].published[k].type = "complete"
       /\ wf[1].published[l].type = "phase-complete"

\* the step that stores at invocation i's position is run again by recovery
ExecutedAgain(i) ==
  /\ wf[i].pc \in wf[i].recovered
  /\ StoreUserMessage(i) \/ StoreAssistantMessages(i)

DistinctEventIds(events) ==
  \A a, b \in 1..Len(events) : events[a].id = events[b].id => a = b

\* C39: when recovery executes RecordingUserTurn or Persisting again, with
\* the recorded output of the load or reload step and no other writer, the
\* persisted session is what the first execution stored and no entry is
\* duplicated
C39_ReexecutionIsIdempotent ==
  [][\A i \in Inv :
       ExecutedAgain(i) => /\ chatEvents' = chatEvents
                           /\ aiSdkMessages' = aiSdkMessages
                           /\ DistinctEventIds(chatEvents')]_vars

\* both steps were executed again and the invocation is Done with a user
\* turn and an assistant message persisted
C39_Witness ==
  /\ wf[1].pc = "done"
  /\ wf[1].recovered = {"storeUser", "storeAsst"}
  /\ wf[1].hasUser
  /\ wf[1].assistantMessages # <<>>

\* the ids for which a complete event is in pub
CompleteIds(pub) ==
  {pub[k].messageId : k \in {j \in 1..Len(pub) : pub[j].type = "complete"}}

\* the ids of the segments collected for the return value that have a
\* non-whitespace character
KeptIds(msgs) ==
  {msgs[k].id : k \in {j \in 1..Len(msgs) : NonWs(msgs[j].content)}}

\* C40 as stated: when a streaming attempt ends, by returning or by
\* throwing, the ids it published a complete event for are the ids of the
\* segments with non-whitespace text it returns for persistence
C40_CompleteIffReturned ==
  [][\A i \in Inv :
       /\ StreamEnd(i) =>
            CompleteIds(wf'[i].published) = KeptIds(wf'[i].assistantMessages)
       /\ StreamFail(i) => CompleteIds(wf[i].published) = {}]_vars

\* the segment that ends at this step has no non-whitespace character
EndsWhitespaceSegment(i) ==
  /\ Finalize(i) \/ StreamEnd(i)
  /\ ~NonWs(wf[i].accumulatedText)

\* C40: in a streaming attempt a complete event is published for exactly the
\* segments with non-whitespace text collected for the return value, which
\* an attempt that does not throw returns for persistence; a segment that is
\* empty or whitespace-only gets no complete event, no collected message and
\* no new id, even when deltas were published for it
C40_CompleteIffKept ==
  [][\A i \in Inv :
       /\ CompleteIds(wf'[i].published) = KeptIds(wf'[i].assistantMessages)
       /\ \A k \in 1..Len(wf'[i].assistantMessages) :
            NonWs(wf'[i].assistantMessages[k].content)
       /\ EndsWhitespaceSegment(i)
            => /\ CompleteIds(wf'[i].published) = CompleteIds(wf[i].published)
               /\ wf'[i].assistantMessages = wf[i].assistantMessages
               /\ wf'[i].currentMessageId = wf[i].currentMessageId]_vars

\* the attempt returned: it published a complete event for one segment and
\* a delta, but no complete event, for a whitespace-only one
C40_Witness ==
  /\ wf[1].pc = "reload"
  /\ CompleteIds(wf[1].published) # {}
  /\ \E k \in 1..Len(wf[1].published) :
       /\ wf[1].published[k].type = "delta"
       /\ ~NonWs(wf[1].published[k].content)
       /\ wf[1].published[k].messageId \notin CompleteIds(wf[1].published)

====
